---- MODULE Spec2Model ----
(***************************************************************************)
(* OTA updater of the ESP32-C6 laundry assistant: device/updater.py and    *)
(* the boot sequence of device/main.py.                                    *)
(*                                                                         *)
(* The persistent state is the flash file system (the four application     *)
(* trees /app, /next, /app_prev, /app_bad and /state.json); the volatile   *)
(* state is the position of the boot script and the locals of the updater  *)
(* function it is in.  Every file-system or network call is one step, so   *)
(* that a power loss can fall between any two of them.                     *)
(*                                                                         *)
(* File-system calls do what they are asked (a rename fails only when its  *)
(* source is missing or its target is a directory with entries); the       *)
(* network fails in every way, and SpecPowerLoss cuts the power at any     *)
(* step.  SpecFsFaults lets the deletion and the renames of the activation *)
(* fail.  SpecVersions is the version test of check_and_update alone, and  *)
(* SpecConnect is connect_wifi pass by pass of its polling loop, after the *)
(* status LED set-up of main.py.  SpecFair is Spec under fair boot         *)
(* progress, SpecKnownGood is Spec with the history of the trees that have *)
(* acknowledged a boot and of the versions rolled back, SpecInterrupted    *)
(* starts after a reset between the two activation renames, and SpecNgenic *)
(* is the backoff of the NgenicClient the application polls               *)
(* (lib/ngenic/ngenic_client.py of release v0.2.2).                        *)
(*                                                                         *)
(* The model starts a boot at the rollback check (main.py line 28).  The   *)
(* status LED set-up before it (main.py lines 21-25) touches neither the   *)
(* flash nor the network; updater.set_status_led, which line 22 calls, is  *)
(* not defined in device/updater.py.                                       *)
(***************************************************************************)
EXTENDS Integers, Sequences, FiniteSets, TLC

(***************************************************************************)
(* Bounds of the model.                                                    *)
(***************************************************************************)
\* Longest file list of a manifest the server offers.
MaxFiles == 2
\* The device is powered on again only while the persisted failure counter
\* is below this cap (the counter itself is unbounded in the code).
MaxBootFailures == 4
\* Calls of mark_boot_success the running application makes in one boot.
MaxAcks == 2
\* Power losses in one behaviour (SpecPowerLoss and SpecInterrupted only).
MaxPowerLosses == 1
\* Failed polls in a row the NgenicClient is followed for (SpecNgenic only).
MaxFailCount == 3
\* Seconds the NgenicClient is followed for (SpecNgenic only).
MaxClientSeconds == 90

(***************************************************************************)
(* Program constants.                                                      *)
(***************************************************************************)
\* connect_wifi(ssid, password, timeout_s=20)
DefaultTimeoutS == 20
\* main.py: updater.maybe_rollback(max_failures=3)
max_failures == 3
\* apply_update: _download_with_hash(url, dest, sha, retries=2)
retries == 2
\* _download_with_hash / _http_get_json: if r.status_code != 200: raise
HTTP_OK == 200

(***************************************************************************)
(* Version strings.  A string is a sequence of one-character strings, so   *)
(* that strip(), split(".") and int() are computed as the code does.       *)
(***************************************************************************)
Null == <<"null">>                       \* JSON null / Python None

V000 == <<"0", ".", "0", ".", "0">>      \* "0.0.0", the default
V12  == <<"1", ".", "2">>                \* "1.2"
V110 == <<"1", ".", "1", "0">>           \* "1.10"
Vabc == <<"a", "b", "c">>                \* "abc", no integer
V00  == <<" ", "0", ".", "0">>           \* " 0.0", (0,0) after strip
V123  == <<"1", ".", "2", ".", "3">>           \* "1.2.3"
V1210 == <<"1", ".", "2", ".", "1", "0">>      \* "1.2.10"
V0912 == <<"0", ".", "9", ".", "1", "2">>      \* "0.9.12"
V0100 == <<"0", ".", "1", "0", ".", "0">>      \* "0.10.0"
V20   == <<"2", ".", "0">>                     \* "2.0"
V199  == <<"1", ".", "9", ".", "9">>           \* "1.9.9"
V10   == <<"1", ".", "0">>                     \* "1.0"
V100  == <<"1", ".", "0", ".", "0">>           \* "1.0.0"
V1dd2 == <<"1", ".", ".", "2">>                \* "1..2", an empty component
V1x   == <<"1", ".", "x">>                     \* "1.x", a letter
Vm10  == <<"-", "1", ".", "0">>                \* "-1.0", a minus sign
Vp20  == <<"+", "2", ".", "0">>                \* "+2.0", a plus sign
Vnone == <<>>                                  \* "", the empty string

DigitChars == {"0", "1", "2", "3", "4", "5", "6", "7", "8", "9"}

DigitVal(c) ==
    CASE c = "0" -> 0 [] c = "1" -> 1 [] c = "2" -> 2 [] c = "3" -> 3
      [] c = "4" -> 4 [] c = "5" -> 5 [] c = "6" -> 6 [] c = "7" -> 7
      [] c = "8" -> 8 [] c = "9" -> 9

RECURSIVE LStrip(_)
LStrip(s) == IF s # <<>> /\ Head(s) = " " THEN LStrip(Tail(s)) ELSE s

RECURSIVE RStrip(_)
RStrip(s) ==
    IF s # <<>> /\ s[Len(s)] = " " THEN RStrip(SubSeq(s, 1, Len(s) - 1)) ELSE s

\* str.strip()
Strip(s) == LStrip(RStrip(s))

\* str.split("."): the list of the fields between the dots (never empty).
RECURSIVE SplitDots(_, _)
SplitDots(s, cur) ==
    IF s = <<>> THEN <<cur>>
    ELSE IF Head(s) = "." THEN <<cur>> \o SplitDots(Tail(s), <<>>)
    ELSE SplitDots(Tail(s), Append(cur, Head(s)))

RECURSIVE DigitsValue(_, _)
DigitsValue(s, acc) ==
    IF s = <<>> THEN acc ELSE DigitsValue(Tail(s), acc * 10 + DigitVal(Head(s)))

\* int(x) of a string: surrounding blanks are ignored, one sign is allowed,
\* then at least one digit and digits only; anything else is a ValueError.
IntOfStr(x) ==
    LET t == Strip(x)
        signed == t # <<>> /\ Head(t) \in {"-", "+"}
        body == IF signed THEN Tail(t) ELSE t
        ok == body # <<>> /\ \A i \in 1..Len(body) : body[i] \in DigitChars
        mag == IF ok THEN DigitsValue(body, 0) ELSE 0
    IN  [ok |-> ok,
         val |-> IF signed /\ Head(t) = "-" THEN 0 - mag ELSE mag]

\* A mutant of _parse_ver: the version is compared as text, character by
\* character, the dots left out.
_parse_ver_text(v) ==
    LET t == Strip(v)
        ds == SelectSeq(t, LAMBDA c : c \in DigitChars)
    IN  IF \A i \in 1..Len(t) : t[i] \in DigitChars \cup {"."}
        THEN [i \in 1..Len(ds) |-> DigitVal(ds[i])]
        ELSE <<0>>

\* _parse_ver: tuple(int(x) for x in v.strip().split(".")), (0,) on any error.
_parse_ver(v) ==
    LET parts == SplitDots(Strip(v), <<>>)
        ints == [i \in 1..Len(parts) |-> IntOfStr(parts[i])]
    IN  IF \A i \in 1..Len(parts) : ints[i].ok
        THEN [i \in 1..Len(parts) |-> ints[i].val]
        ELSE <<0>>

\* A mutant of TupleLE: the shorter tuple is padded with zeros.
RECURSIVE TupleLE_padded(_, _)
TupleLE_padded(a, b) ==
    IF a = <<>> /\ b = <<>> THEN TRUE
    ELSE LET x == IF a = <<>> THEN 0 ELSE Head(a)
             y == IF b = <<>> THEN 0 ELSE Head(b)
         IN  IF x # y THEN x < y
             ELSE TupleLE_padded(IF a = <<>> THEN a ELSE Tail(a),
                                 IF b = <<>> THEN b ELSE Tail(b))

\* Python's a <= b on tuples of integers: lexicographic, a proper prefix is
\* smaller.
RECURSIVE TupleLE(_, _)
TupleLE(a, b) ==
    IF a = <<>> THEN TRUE
    ELSE IF b = <<>> THEN FALSE
    ELSE IF Head(a) # Head(b) THEN Head(a) < Head(b)
    ELSE TupleLE(Tail(a), Tail(b))

\* A mutant of NoUpdateAvailable: ties are taken for updates.
NoUpdateAvailable_strict(new_ver, cur_ver) ==
    /\ TupleLE(_parse_ver(new_ver), _parse_ver(cur_ver))
    /\ _parse_ver(new_ver) # _parse_ver(cur_ver)

\* check_and_update: if _parse_ver(new_ver) <= _parse_ver(cur_ver): return False
NoUpdateAvailable(new_ver, cur_ver) ==
    TupleLE(_parse_ver(new_ver), _parse_ver(cur_ver))

\* check_and_update goes on to apply_update(manifest): the manifest's
\* version is newer than the installed one.
UpdateAvailable(new_ver, cur_ver) == ~NoUpdateAvailable(new_ver, cur_ver)

\* The version strings the comparison is tried on.
VersionStrings ==
    {V123, V1210, V0912, V0100, V20, V199, V10, V100, Vabc, V000, V12, V110,
     V1dd2, V1x, Vm10, Vp20, Vnone}

(***************************************************************************)
(* File contents and digests.  A blob is the whole content of one file:    *)
(* Garbage is a truncated or corrupted body, FactoryBlob the content the   *)
(* device was provisioned with, and each offered version has its own       *)
(* content.  Sha256 is injective on the blobs of the model.                *)
(***************************************************************************)
Garbage == 0
FactoryBlob == 1
Blobs == 0..3

HexLower == <<"e3b0c4", "6b86b2", "d4735e", "4e0740">>
HexUpper == <<"E3B0C4", "6B86B2", "D4735E", "4E0740">>
\* The same digests with white space around them, and a digest of white
\* space only.
HexPadded == <<" e3b0c4 ", " 6b86b2 ", " d4735e ", " 4e0740 ">>
Blank == "  "

\* ubinascii.hexlify(h.digest()).decode().lower()
Sha256(b) == HexLower[b + 1]

\* (expected_sha256 or "").strip().lower(); a missing or null sha256 is ""
\* already.
NormalizeDigest(s) ==
    IF \E i \in 1..Len(HexUpper) : s \in {HexUpper[i], HexPadded[i]}
    THEN HexLower[CHOOSE i \in 1..Len(HexUpper) : s \in {HexUpper[i], HexPadded[i]}]
    ELSE IF s = Blank THEN ""
    ELSE s

\* A mutant of DigestAccepted: the comparison is dropped.
DigestAccepted_any(expected_sha256, got) == TRUE

\* A mutant of DigestAccepted: the manifest's digest is not normalised and
\* an empty digest is compared like any other.
DigestAccepted_raw(expected_sha256, got) == got = expected_sha256

\* _download_with_hash: not (expected and got != expected)
DigestAccepted(expected_sha256, got) ==
    LET expected == NormalizeDigest(expected_sha256)
    IN  expected = "" \/ got = expected

(***************************************************************************)
(* The manifests the server may answer with.  Each has the first n paths   *)
(* (n = 0 .. MaxFiles); entry e of it (e = 0: none) has an empty sha256.   *)
(* "1.10" gives the digest of app_main.py in upper case and the other      *)
(* digests with white space around them, and white space for an empty      *)
(* sha256.                                                                 *)
(***************************************************************************)
Paths == 1..MaxFiles
\* /app/app_main.py, the module main.py imports.
AppMainPath == 1

OfferedVersions == {V000, Vabc, V00, V12, V110}

ContentOf(v) == IF v = V12 THEN 2 ELSE IF v = V110 THEN 3 ELSE FactoryBlob

ManifestDigest(v) ==
    IF v = V110 THEN HexUpper[ContentOf(v) + 1] ELSE HexLower[ContentOf(v) + 1]

EmptyDigest(v) == IF v = V110 THEN Blank ELSE ""

FileEntry(v, p, e) ==
    [path |-> p,
     url |-> [version |-> v, path |-> p],
     sha256 |-> IF p = e THEN EmptyDigest(v)
                ELSE IF v = V110 /\ p # AppMainPath
                THEN HexPadded[ContentOf(v) + 1]
                ELSE ManifestDigest(v)]

Manifest(v, n, e) ==
    [version |-> v, files |-> [p \in 1..n |-> FileEntry(v, p, e)]]

Manifests ==
    {Manifest(v, n, e) : v \in OfferedVersions, n \in 0..MaxFiles, e \in 0..MaxFiles}

NoManifest == [version |-> Null, files |-> <<>>]

\* What one GET of a file URL can give: a transport error, a status other
\* than 200, or a 200 whose body is the genuine content or a corrupted one,
\* and whose stream may break before its end.
Responses(url) ==
    {[kind |-> "neterr", status |-> 0, body |-> Garbage]}
    \cup {[kind |-> "http", status |-> s, body |-> Garbage] : s \in {404, 500}}
    \cup {[kind |-> k, status |-> HTTP_OK, body |-> b] :
            k \in {"http", "broken"}, b \in {ContentOf(url.version), Garbage}}

(***************************************************************************)
(* The file system: four trees and /state.json.                            *)
(***************************************************************************)
Roots == {"/app", "/next", "/app_prev", "/app_bad"}

NoTree == [exists |-> FALSE, files |-> {}]
EmptyTree == [exists |-> TRUE, files |-> {}]
FactoryTree == [exists |-> TRUE, files |-> {<<AppMainPath, FactoryBlob>>}]

\* open(dest, "wb") and the writes; _mkdirs(parent) creates the root.
WriteFile(tree, p, b) ==
    [exists |-> TRUE, files |-> {f \in tree.files : f[1] # p} \cup {<<p, b>>}]

\* os.remove(dest), OSError ignored
RemoveFile(tree, p) ==
    [exists |-> tree.exists, files |-> {f \in tree.files : f[1] # p}]

\* A mutant of _rmtree: the tree is left in place.
_rmtree_keeps(f, path) == f

\* _rmtree(path): nothing if the path does not exist, else the whole tree goes.
_rmtree(f, path) == [f EXCEPT ![path] = NoTree]

\* os.rename(src, dst) succeeds when src exists and dst is absent or an
\* empty directory; it raises OSError otherwise.
CanRename(f, src, dst) ==
    /\ f[src].exists
    /\ ~f[dst].exists \/ f[dst].files = {}

Rename(f, src, dst) == [f EXCEPT ![dst] = f[src], ![src] = NoTree]

\* A mutant of RenameIfPossible: the rename is not done.
RenameIfPossible_skip(f, src, dst) == f

\* try: os.rename(src, dst) / except OSError: pass
RenameIfPossible(f, src, dst) ==
    IF CanRename(f, src, dst) THEN Rename(f, src, dst) ELSE f

\* The record of the trees that have acknowledged a boot while active and
\* of the versions that a rollback has reverted: roots holds the roots
\* where an acknowledged tree lies now, reverted the installed_version of
\* each rollback.  It is a history of the run that no step of the program
\* reads; it is kept (kept = TRUE) in the specification whose properties
\* read it, SpecKnownGood, and left as NotTracked in the others.  It
\* follows the trees a rollback can restore or an update can set aside:
\* those of TrackedRoots.
TrackedRoots == {"/app", "/app_prev"}
NotTracked == [kept |-> FALSE, roots |-> {}, reverted |-> {}]
NoneGood == [kept |-> TRUE, roots |-> {}, reverted |-> {}]

\* The record g after os.rename(src, dst) on f: the tree keeps what it has
\* done under its new name.
GoodAfterRename(g, f, src, dst) ==
    IF g.kept /\ CanRename(f, src, dst)
    THEN [g EXCEPT !.roots = ((@ \ {src, dst})
                                 \cup (IF src \in @ THEN {dst} ELSE {}))
                                \cap TrackedRoots]
    ELSE g

\* The record g after _rmtree(path).
GoodAfterRmtree(g, path) == [g EXCEPT !.roots = @ \ {path}]

\* The record g after a rollback on a state record of installed_version v.
GoodAfterRevert(g, v) ==
    IF g.kept THEN [g EXCEPT !.reverted = @ \cup {v}] ELSE g

\* The record g after a mark_boot_success of the application of /app.
GoodAfterAck(g) == IF g.kept THEN [g EXCEPT !.roots = @ \cup {"/app"}] ELSE g

(***************************************************************************)
(* /state.json.  kind is "absent", "malformed" (not JSON: a file cut short *)
(* by a power loss while it was written) or "record".                      *)
(***************************************************************************)
StateRecord(iv, bf, pv) ==
    [kind |-> "record", installed_version |-> iv, boot_failures |-> bf,
     pending_version |-> pv]

\* load_state: the default of _load_json
DefaultState == StateRecord(V000, 0, Null)

AbsentFile == [DefaultState EXCEPT !.kind = "absent"]
MalformedFile == [DefaultState EXCEPT !.kind = "malformed"]

\* _load_json: json.load(f), with OSError (no such file) giving the default.
\* json.load raises ValueError on content that is not JSON, and ValueError
\* is not an OSError: raised is TRUE.
_load_json(file, default) ==
    CASE file.kind = "absent" -> [raised |-> FALSE, value |-> default]
      [] file.kind = "malformed" -> [raised |-> TRUE, value |-> default]
      [] OTHER -> [raised |-> FALSE, value |-> file]

load_state(file) == _load_json(file, DefaultState)

\* open(path, "w") in _save_json: the file is created or cut to length 0.
\* Until json.dump and close have run, the flash holds an empty file, or,
\* on a copy-on-write file system, still the old content of an existing
\* file.
OpenForWrite(file) ==
    {MalformedFile} \cup (IF file.kind = "record" THEN {file} ELSE {})

(***************************************************************************)
(* State.                                                                  *)
(***************************************************************************)
VARIABLES
    fs,          \* Roots -> tree: the four application trees on flash
    state_json,  \* the content of /state.json on flash
    pc,          \* the position of main.py, of the updater or of the app
    st,          \* the local st of the function that is saving the state
    manifest,    \* the manifest check_and_update fetched
    idx,         \* apply_update: index of the file being downloaded
    attempt,     \* _download_with_hash: the loop variable
    got,         \* _download_with_hash: the digest of the streamed body
    sleeps,      \* backoff sleeps of this _download_with_hash call, in 1/10
    e,           \* the exception that is propagating or has been caught
    last_err,    \* _download_with_hash: last_err
    errs,        \* the exceptions this _download_with_hash call has caught
    fetched,     \* indices whose download returned in this apply_update
    acks,        \* calls of mark_boot_success completed in this boot
    losses,      \* power losses so far
    pre,         \* the flash as it was when the current updater call began
    result,      \* how the last updater call of this boot ended
    ticks_ms,    \* time.ticks_ms(): the millisecond clock, which wraps
    t0,          \* connect_wifi: t0
    timeout_s,   \* connect_wifi: timeout_s
    _next_allowed_ms,  \* NgenicClient: end of the backoff window
    _fail_count,       \* NgenicClient: polls that have failed in a row
    _cache,            \* NgenicClient: _cache["ok"] and _cache["last_error"]
    limited,     \* the last HTTP 429 a poll received: when, and its wait
    requested,   \* the last HTTP request of the client: when
    good         \* the trees that have acknowledged a boot while active

vars == <<fs, state_json, pc, st, manifest, idx, attempt, got, sleeps, e,
          last_err, errs, fetched, acks, losses, pre, result, ticks_ms, t0,
          timeout_s, _next_allowed_ms, _fail_count, _cache, limited,
          requested, good>>

\* The locals of apply_update and _download_with_hash.
dl == <<manifest, idx, attempt, got, sleeps, e, last_err, errs, fetched>>

\* The clock and the locals of the polling loop of connect_wifi.
wifi == <<ticks_ms, t0, timeout_s>>

Flash == [fs |-> fs, state_json |-> state_json]

NoResult == [op |-> "none", out |-> "none"]

\* No exception: last_err = None.  The exceptions of one download attempt
\* are "OSError" (requests.get or the read of the stream failed), "HTTP"
\* (RuntimeError, a status other than 200) and "SHA256" (RuntimeError, the
\* digest mismatch).
NoError == "None"
Outcome(op, out) == [op |-> op, out |-> out]

\* The attributes of the NgenicClient and the record of its requests.
ngenic == <<_next_allowed_ms, _fail_count, _cache, limited, requested>>

\* No HTTP 429 received yet; no request made yet.
NotLimited == [on |-> FALSE, at |-> 0, wait_s |-> 0]
NotRequested == [on |-> FALSE, at |-> 0]

\* NgenicClient.__init__: the backoff window ends now, nothing has failed,
\* the cache is empty.
NewClient ==
    /\ _next_allowed_ms = ticks_ms
    /\ _fail_count = 0
    /\ _cache = [ok |-> FALSE, last_error |-> NoError]
    /\ limited = NotLimited
    /\ requested = NotRequested

\* The device as flashed: the factory tree or no tree yet, no state file.
InitDevice ==
    /\ fs \in {[r \in Roots |-> IF r = "/app" THEN t ELSE NoTree] :
                 t \in {NoTree, FactoryTree}}
    /\ state_json = AbsentFile
    /\ pc = "boot"
    /\ st = DefaultState
    /\ manifest = NoManifest
    /\ idx = 0
    /\ attempt = 0
    /\ got = ""
    /\ sleeps = <<>>
    /\ e = NoError
    /\ last_err = NoError
    /\ errs = <<>>
    /\ fetched = {}
    /\ acks = 0
    /\ losses = 0
    /\ pre = [fs |-> fs, state_json |-> state_json]
    /\ result = NoResult
    /\ ticks_ms = 0
    /\ t0 = 0
    /\ timeout_s = DefaultTimeoutS
    /\ NewClient

Init == InitDevice /\ good = NotTracked

(***************************************************************************)
(* maybe_rollback(max_failures), called first by main.py.                  *)
(***************************************************************************)
\* A mutant of RollbackDue: the threshold is compared the wrong way round.
RollbackDue_gt(s, f) ==
    /\ s.boot_failures > max_failures
    /\ f["/app_prev"].exists

\* A mutant of RollbackDue: the previous tree is not looked for.
RollbackDue_nostat(s, f) == s.boot_failures >= max_failures

\* maybe_rollback: neither early return is taken.
RollbackDue(s, f) ==
    /\ ~(s.boot_failures < max_failures)
    /\ f["/app_prev"].exists

\* A mutant of ClearedState: the counter is left as it is.
ClearedState_keep(s) == [s EXCEPT !.pending_version = Null]

\* A mutant of ClearedState: the rollback writes the default version too.
ClearedState_default(s) ==
    [s EXCEPT !.boot_failures = 0, !.pending_version = Null,
              !.installed_version = DefaultState.installed_version]

\* st["boot_failures"] = 0; st["pending_version"] = None
ClearedState(s) == [s EXCEPT !.boot_failures = 0, !.pending_version = Null]

\* A mutant of maybe_rollback: main.py goes to the update check without
\* calling maybe_rollback.
maybe_rollback_absent ==
    /\ pc = "boot"
    /\ pc' = "secrets"
    /\ UNCHANGED <<fs, state_json, st, dl, acks, losses, wifi, ngenic, pre, result, good>>

\* main.py: updater.maybe_rollback(max_failures=3): load_state and the two
\* early returns.  A ValueError of load_state ends main.py.
maybe_rollback ==
    /\ pc = "boot"
    /\ pre' = Flash
    /\ LET l == load_state(state_json) IN
         IF l.raised
         THEN /\ pc' = "halted"
              /\ result' = Outcome("maybe_rollback", "raised")
              /\ st' = st
         ELSE IF RollbackDue(l.value, fs)
         THEN /\ pc' = "mr_rmtree"
              /\ result' = result
              /\ st' = l.value
         ELSE /\ pc' = "secrets"
              /\ result' = Outcome("maybe_rollback", "false")
              /\ st' = st
    /\ UNCHANGED <<fs, state_json, dl, acks, losses, wifi, ngenic, good>>

\* _rmtree("/app_bad")
mr_rmtree ==
    /\ pc = "mr_rmtree"
    /\ fs' = _rmtree(fs, "/app_bad")
    /\ pc' = "mr_rename_app"
    /\ UNCHANGED <<state_json, st, dl, acks, losses, wifi, ngenic, pre, result, good>>

\* try: os.rename("/app", "/app_bad") / except OSError: pass
mr_rename_app ==
    /\ pc = "mr_rename_app"
    /\ fs' = RenameIfPossible(fs, "/app", "/app_bad")
    /\ pc' = "mr_rename_prev"
    /\ UNCHANGED <<state_json, st, dl, acks, losses, wifi, ngenic, pre, result>>
    /\ good' = GoodAfterRename(good, fs, "/app", "/app_bad")

\* os.rename("/app_prev", "/app"); an OSError ends main.py.
mr_rename_prev ==
    /\ pc = "mr_rename_prev"
    /\ IF CanRename(fs, "/app_prev", "/app")
       THEN /\ fs' = Rename(fs, "/app_prev", "/app")
            /\ pc' = "mr_save"
            /\ result' = result
       ELSE /\ fs' = fs
            /\ pc' = "halted"
            /\ result' = Outcome("maybe_rollback", "raised")
    /\ UNCHANGED <<state_json, st, dl, acks, losses, wifi, ngenic, pre>>
    /\ good' = IF CanRename(fs, "/app_prev", "/app")
               THEN GoodAfterRevert(GoodAfterRename(good, fs, "/app_prev", "/app"),
                                    st.installed_version)
               ELSE good

\* st[...] = ...; save_state(st): open("/state.json", "w")
mr_save_open ==
    /\ pc = "mr_save"
    /\ st' = ClearedState(st)
    /\ state_json' \in OpenForWrite(state_json)
    /\ pc' = "mr_save_write"
    /\ UNCHANGED <<fs, dl, acks, losses, wifi, ngenic, pre, result, good>>

\* save_state(st): json.dump(st, f) and the close
mr_save_write ==
    /\ pc = "mr_save_write"
    /\ state_json' = st
    /\ pc' = "mr_reset"
    /\ UNCHANGED <<fs, st, dl, acks, losses, wifi, ngenic, pre, result, good>>

\* machine.reset()
mr_reset ==
    /\ pc = "mr_reset"
    /\ pc' = "reset"
    /\ result' = Outcome("maybe_rollback", "reset")
    /\ UNCHANGED <<fs, state_json, st, dl, acks, losses, wifi, ngenic, pre, good>>

(***************************************************************************)
(* main.py between the rollback check and the update check.                *)
(***************************************************************************)
\* A mutant of main_recovery_check: the button is looked at after the boot
\* has been counted.
main_recovery_check_counted ==
    /\ pc = "secrets"
    /\ \E held \in BOOLEAN, check_updates_on_boot \in BOOLEAN :
         /\ pc' = IF held THEN "recovery"
                  ELSE IF check_updates_on_boot THEN "wifi"
                  ELSE "count_boot"
         /\ state_json' = IF held /\ ~load_state(state_json).raised
                          THEN [load_state(state_json).value
                                  EXCEPT !.boot_failures = @ + 1]
                          ELSE state_json
    /\ UNCHANGED <<fs, st, dl, acks, losses, wifi, ngenic, pre, result, good>>

\* secrets = _load_secrets(); if _boot_button_held(): ... while True: sleep;
\* if secrets.get("check_updates_on_boot", True): ...
main_recovery_check ==
    /\ pc = "secrets"
    /\ \E held \in BOOLEAN, check_updates_on_boot \in BOOLEAN :
         pc' = IF held THEN "recovery"
               ELSE IF check_updates_on_boot THEN "wifi"
               ELSE "count_boot"
    /\ UNCHANGED <<fs, state_json, st, dl, acks, losses, wifi, ngenic, pre, result, good>>

\* A mutant of connect_wifi: the call is outside the try block, and its
\* RuntimeError ends main.py.
connect_wifi_uncaught ==
    /\ pc = "wifi"
    /\ \E connected \in BOOLEAN :
         IF connected
         THEN pc' = "check" /\ result' = result
         ELSE pc' = "halted" /\ result' = Outcome("connect_wifi", "raised")
    /\ UNCHANGED <<fs, state_json, st, dl, acks, losses, wifi, ngenic, pre, good>>

\* updater.connect_wifi(...): returns the handle or raises RuntimeError on
\* the timeout; main.py catches it and goes on to start the application.
connect_wifi ==
    /\ pc = "wifi"
    /\ \E connected \in BOOLEAN :
         IF connected
         THEN pc' = "check" /\ result' = result
         ELSE pc' = "count_boot" /\ result' = Outcome("connect_wifi", "raised")
    /\ UNCHANGED <<fs, state_json, st, dl, acks, losses, wifi, ngenic, pre, good>>

(***************************************************************************)
(* check_and_update(manifest_url)                                          *)
(***************************************************************************)
\* st = load_state(); manifest = _http_get_json(url); the version test.
\* _http_get_json raises on a status other than 200 and on a body that is
\* not JSON; every exception is caught by main.py.
check_and_update ==
    /\ pc = "check"
    /\ pre' = Flash
    /\ LET l == load_state(state_json) IN
         IF l.raised
         THEN /\ pc' = "count_boot"
              /\ result' = Outcome("check_and_update", "raised")
              /\ manifest' = manifest
         ELSE \E answer \in {NoManifest} \cup Manifests :
                IF answer = NoManifest
                THEN /\ pc' = "count_boot"
                     /\ result' = Outcome("check_and_update", "raised")
                     /\ manifest' = manifest
                ELSE IF NoUpdateAvailable(answer.version,
                                          l.value.installed_version)
                THEN /\ pc' = "count_boot"
                     /\ result' = Outcome("check_and_update", "false")
                     /\ manifest' = answer
                ELSE /\ pc' = "apply"
                     /\ result' = result
                     /\ manifest' = answer
    /\ UNCHANGED <<fs, state_json, st, idx, attempt, got, sleeps, e, last_err,
                   errs, fetched, acks, losses, wifi, ngenic, good>>

(***************************************************************************)
(* apply_update(manifest)                                                  *)
(***************************************************************************)
\* A mutant of apply_update: the file list is not tested.
apply_update_untested ==
    /\ pc = "apply"
    /\ pre' = Flash
    /\ pc' = "ap_rmtree_next"
    /\ result' = result
    /\ UNCHANGED <<fs, state_json, st, dl, acks, losses, wifi, ngenic, good>>

\* files = manifest.get("files", []); if not files: raise RuntimeError
apply_update ==
    /\ pc = "apply"
    /\ pre' = Flash
    /\ IF manifest.files = <<>>
       THEN /\ pc' = "count_boot"
            /\ result' = Outcome("apply_update", "raised")
       ELSE /\ pc' = "ap_rmtree_next"
            /\ result' = result
    /\ UNCHANGED <<fs, state_json, st, dl, acks, losses, wifi, ngenic, good>>

\* _rmtree("/next")
ap_rmtree_next ==
    /\ pc = "ap_rmtree_next"
    /\ fs' = _rmtree(fs, "/next")
    /\ pc' = "ap_mkdir"
    /\ UNCHANGED <<state_json, st, dl, acks, losses, wifi, ngenic, pre, result, good>>

\* try: os.mkdir("/next") / except OSError: pass; then the first file
ap_mkdir ==
    /\ pc = "ap_mkdir"
    /\ fs' = IF fs["/next"].exists THEN fs ELSE [fs EXCEPT !["/next"] = EmptyTree]
    /\ idx' = 1
    /\ attempt' = 0
    /\ sleeps' = <<>>
    /\ last_err' = NoError
    /\ errs' = <<>>
    /\ fetched' = {}
    /\ pc' = "dl_get"
    /\ UNCHANGED <<state_json, st, manifest, got, e, acks, losses, wifi, ngenic, pre, result, good>>

\* The frame of apply_update is gone: its locals are forgotten.
ClearLocals ==
    /\ manifest' = NoManifest
    /\ idx' = 0
    /\ attempt' = 0
    /\ got' = ""
    /\ sleeps' = <<>>
    /\ e' = NoError
    /\ last_err' = NoError
    /\ errs' = <<>>
    /\ fetched' = {}

\* The file entry _download_with_hash is working on.
item == manifest.files[idx]

\* A mutant of DestRoot: the files are downloaded into the active tree.
DestRoot_app == "/app"

\* dest = "/next/" + rel
DestRoot == "/next"

\* _download_with_hash, the try block up to the digest: requests.get(url),
\* the status test and _sha256_stream_to_file(r, dest_path).
dl_get ==
    /\ pc = "dl_get"
    /\ \E r \in Responses(item.url) :
         IF r.kind = "neterr" \/ r.status # HTTP_OK
         THEN /\ pc' = "dl_except"
              /\ e' = IF r.kind = "neterr" THEN "OSError" ELSE "HTTP"
              /\ UNCHANGED <<fs, got>>
         ELSE IF r.kind = "broken"
         THEN /\ fs' = [fs EXCEPT ![DestRoot] = WriteFile(@, item.path, Garbage)]
              /\ pc' = "dl_except"
              /\ e' = "OSError"
              /\ got' = got
         ELSE /\ fs' = [fs EXCEPT ![DestRoot] = WriteFile(@, item.path, r.body)]
              /\ got' = Sha256(r.body)
              /\ pc' = "dl_verify"
              /\ e' = e
    /\ UNCHANGED <<state_json, st, manifest, idx, attempt, sleeps, last_err,
                   errs, fetched, acks, losses, wifi, ngenic, pre, result, good>>

\* if expected and got != expected: os.remove(dest_path); raise ...
\* else: return, and apply_update goes to the next file or to the swap.
dl_verify ==
    /\ pc = "dl_verify"
    /\ IF DigestAccepted(item.sha256, got)
       THEN /\ fetched' = fetched \cup {idx}
            /\ fs' = fs
            /\ e' = e
            /\ last_err' = NoError
            /\ errs' = <<>>
            /\ IF idx = Len(manifest.files)
               THEN /\ pc' = "ap_rmtree_prev"
                    /\ UNCHANGED <<idx, attempt, sleeps>>
               ELSE /\ pc' = "dl_get"
                    /\ idx' = idx + 1
                    /\ attempt' = 0
                    /\ sleeps' = <<>>
       ELSE /\ fs' = [fs EXCEPT ![DestRoot] = RemoveFile(@, item.path)]
            /\ pc' = "dl_except"
            /\ e' = "SHA256"
            /\ UNCHANGED <<idx, attempt, sleeps, last_err, errs, fetched>>
    /\ UNCHANGED <<state_json, st, manifest, got, acks, losses, wifi, ngenic, pre, result, good>>

\* A mutant of dl_except: apply_update catches the error of a file that
\* has failed on all its attempts and goes on with the next file.
dl_except_continue ==
    /\ pc = "dl_except"
    /\ fs' = [fs EXCEPT ![DestRoot] = RemoveFile(@, item.path)]
    /\ IF attempt < retries
       THEN /\ attempt' = attempt + 1
            /\ pc' = "dl_get"
            /\ sleeps' = Append(sleeps, 5 + 5 * attempt)
            /\ last_err' = e
            /\ errs' = Append(errs, e)
            /\ e' = NoError
            /\ UNCHANGED <<idx, result>>
       ELSE IF idx < Len(manifest.files)
       THEN /\ idx' = idx + 1
            /\ attempt' = 0
            /\ pc' = "dl_get"
            /\ sleeps' = <<>>
            /\ last_err' = NoError
            /\ errs' = <<>>
            /\ e' = NoError
            /\ result' = result
       ELSE /\ pc' = "count_boot"
            /\ sleeps' = Append(sleeps, 5 + 5 * attempt)
            /\ last_err' = e
            /\ errs' = Append(errs, e)
            /\ e' = e
            /\ result' = Outcome("apply_update", "raised")
            /\ UNCHANGED <<idx, attempt>>
    /\ UNCHANGED <<state_json, st, manifest, got, fetched, acks, losses, wifi, ngenic, pre, good>>

\* A mutant of NextLastErr: the first error is kept.
NextLastErr_first(last, exc) == IF last = NoError THEN exc ELSE last

\* last_err = e
NextLastErr(last, exc) == exc

\* except Exception as e: last_err = e; os.remove(dest_path);
\* time.sleep(0.5 + 0.5 * attempt); then the next attempt (e is unbound at
\* the end of the except block), or, after the last one, raise last_err,
\* which leaves apply_update and check_and_update and is caught by main.py.
dl_except ==
    /\ pc = "dl_except"
    /\ fs' = [fs EXCEPT ![DestRoot] = RemoveFile(@, item.path)]
    /\ sleeps' = Append(sleeps, 5 + 5 * attempt)
    /\ last_err' = NextLastErr(last_err, e)
    /\ errs' = Append(errs, e)
    /\ IF attempt < retries
       THEN /\ attempt' = attempt + 1
            /\ pc' = "dl_get"
            /\ e' = NoError
            /\ result' = result
       ELSE /\ attempt' = attempt
            /\ pc' = "count_boot"
            /\ e' = last_err'
            /\ result' = Outcome("apply_update", "raised")
    /\ UNCHANGED <<state_json, st, manifest, idx, got, fetched, acks, losses, wifi, ngenic, pre, good>>

\* Swap: _rmtree("/app_prev")
ap_rmtree_prev ==
    /\ pc = "ap_rmtree_prev"
    /\ fs' = _rmtree(fs, "/app_prev")
    /\ pc' = "ap_rename_app"
    /\ UNCHANGED <<state_json, st, dl, acks, losses, wifi, ngenic, pre, result>>
    /\ good' = GoodAfterRmtree(good, "/app_prev")

\* A mutant of ap_rename_app: the active tree is moved to the quarantine
\* location instead of the previous-tree location.
ap_rename_app_quarantine ==
    /\ pc = "ap_rename_app"
    /\ fs' = RenameIfPossible(_rmtree(fs, "/app_bad"), "/app", "/app_bad")
    /\ pc' = "ap_rename_next"
    /\ UNCHANGED <<state_json, st, dl, acks, losses, wifi, ngenic, pre, result>>
    /\ good' = GoodAfterRename(good, _rmtree(fs, "/app_bad"), "/app", "/app_bad")

\* try: os.rename("/app", "/app_prev") / except OSError: pass
ap_rename_app ==
    /\ pc = "ap_rename_app"
    /\ fs' = RenameIfPossible(fs, "/app", "/app_prev")
    /\ pc' = "ap_rename_next"
    /\ UNCHANGED <<state_json, st, dl, acks, losses, wifi, ngenic, pre, result>>
    /\ good' = GoodAfterRename(good, fs, "/app", "/app_prev")

\* os.rename("/next", "/app"); an OSError is caught by main.py.
ap_rename_next ==
    /\ pc = "ap_rename_next"
    /\ IF CanRename(fs, "/next", "/app")
       THEN /\ fs' = Rename(fs, "/next", "/app")
            /\ pc' = "ap_save"
            /\ result' = result
       ELSE /\ fs' = fs
            /\ pc' = "count_boot"
            /\ result' = Outcome("apply_update", "raised")
    /\ UNCHANGED <<state_json, st, dl, acks, losses, wifi, ngenic, pre>>
    /\ good' = GoodAfterRename(good, fs, "/next", "/app")

\* A mutant of AppliedState: the failure counter is not reset.
AppliedState_keep(s, new_ver) ==
    [s EXCEPT !.installed_version = new_ver, !.pending_version = new_ver]

\* A mutant of AppliedState: the pending version is not set.
AppliedState_nopending(s, new_ver) ==
    [s EXCEPT !.installed_version = new_ver, !.boot_failures = 0]

\* st["installed_version"] = new_ver; st["pending_version"] = new_ver;
\* st["boot_failures"] = 0
AppliedState(s, new_ver) ==
    [s EXCEPT !.installed_version = new_ver, !.pending_version = new_ver,
              !.boot_failures = 0]

\* st = load_state(); st[...] = ...; save_state(st): open("/state.json", "w")
ap_save_open ==
    /\ pc = "ap_save"
    /\ LET l == load_state(state_json) IN
         IF l.raised
         THEN /\ pc' = "count_boot"
              /\ result' = Outcome("apply_update", "raised")
              /\ UNCHANGED <<st, state_json>>
         ELSE /\ st' = AppliedState(l.value, manifest.version)
              /\ state_json' \in OpenForWrite(state_json)
              /\ pc' = "ap_save_write"
              /\ result' = result
    /\ UNCHANGED <<fs, dl, acks, losses, wifi, ngenic, pre, good>>

\* save_state(st): json.dump(st, f) and the close
ap_save_write ==
    /\ pc = "ap_save_write"
    /\ state_json' = st
    /\ pc' = "ap_reset"
    /\ UNCHANGED <<fs, st, dl, acks, losses, wifi, ngenic, pre, result, good>>

\* machine.reset()
ap_reset ==
    /\ pc = "ap_reset"
    /\ pc' = "reset"
    /\ result' = Outcome("apply_update", "reset")
    /\ UNCHANGED <<fs, state_json, st, dl, acks, losses, wifi, ngenic, pre, good>>

(***************************************************************************)
(* main.py from the boot count to the application.                         *)
(***************************************************************************)
\* A mutant of CountedState: the boot is not counted.
CountedState_same(s) == s

\* A mutant of CountedState: the boot is counted twice.
CountedState_twice(s) == [s EXCEPT !.boot_failures = @ + 2]

\* st["boot_failures"] = int(st.get("boot_failures", 0)) + 1
CountedState(s) == [s EXCEPT !.boot_failures = @ + 1]

\* st = updater.load_state(); st[...] = ... + 1; updater.save_state(st):
\* open("/state.json", "w").  A ValueError of load_state ends main.py.
main_count_open ==
    /\ pc = "count_boot"
    /\ LET l == load_state(state_json) IN
         IF l.raised
         THEN /\ pc' = "halted"
              /\ UNCHANGED <<st, state_json>>
         ELSE /\ st' = CountedState(l.value)
              /\ state_json' \in OpenForWrite(state_json)
              /\ pc' = "count_write"
    /\ ClearLocals
    /\ UNCHANGED <<fs, acks, losses, wifi, ngenic, pre, result, good>>

\* updater.save_state(st): json.dump(st, f) and the close
main_count_write ==
    /\ pc = "count_write"
    /\ state_json' = st
    /\ pc' = "import_app"
    /\ UNCHANGED <<fs, st, dl, acks, losses, wifi, ngenic, pre, result, good>>

\* import app_main, from /app: it fails (and main.py ends) when /app has no
\* app_main.py or one that is no Python source.
main_import_app ==
    /\ pc = "import_app"
    /\ pc' = IF \E f \in fs["/app"].files : f[1] = AppMainPath /\ f[2] # Garbage
             THEN "app" ELSE "halted"
    /\ UNCHANGED <<fs, state_json, st, dl, acks, losses, wifi, ngenic, pre, result, good>>

\* The application crashes or hangs before it acknowledges the boot.
app_crash ==
    /\ pc = "app"
    /\ pc' = "halted"
    /\ UNCHANGED <<fs, state_json, st, dl, acks, losses, wifi, ngenic, pre, result, good>>

(***************************************************************************)
(* mark_boot_success(), called by the running application.                 *)
(***************************************************************************)
\* A mutant of AcknowledgedState: the pending version is kept.
AcknowledgedState_pending(s) == [s EXCEPT !.boot_failures = 0]

\* A mutant of AcknowledgedState: the installed version is reset too.
AcknowledgedState_default(s) == DefaultState

\* st["boot_failures"] = 0; st["pending_version"] = None
AcknowledgedState(s) == [s EXCEPT !.boot_failures = 0, !.pending_version = Null]

\* st = load_state(); st[...] = ...; save_state(st): open("/state.json", "w")
mbs_open ==
    /\ pc \in {"app", "app_ok"}
    /\ acks < MaxAcks
    /\ pre' = Flash
    /\ LET l == load_state(state_json) IN
         IF l.raised
         THEN /\ pc' = "halted"
              /\ result' = Outcome("mark_boot_success", "raised")
              /\ UNCHANGED <<st, state_json>>
         ELSE /\ st' = AcknowledgedState(l.value)
              /\ state_json' \in OpenForWrite(state_json)
              /\ pc' = "mbs_write"
              /\ result' = result
    /\ UNCHANGED <<fs, dl, acks, losses, wifi, ngenic, good>>

\* save_state(st): json.dump(st, f) and the close; the call returns.
mbs_write ==
    /\ pc = "mbs_write"
    /\ state_json' = st
    /\ pc' = "app_ok"
    /\ acks' = acks + 1
    /\ result' = Outcome("mark_boot_success", "returned")
    /\ UNCHANGED <<fs, st, dl, losses, wifi, ngenic, pre>>
    /\ good' = GoodAfterAck(good)

(***************************************************************************)
(* The device starts main.py again: after machine.reset(), after a power   *)
(* loss or a press of the reset button at any point.  The RAM is lost, the *)
(* flash is kept.                                                          *)
(***************************************************************************)
Restart ==
    /\ state_json.kind = "record" => state_json.boot_failures < MaxBootFailures
    /\ pc' = "boot"
    /\ st' = DefaultState
    /\ ClearLocals
    /\ acks' = 0
    /\ pre' = Flash
    /\ result' = NoResult
    /\ UNCHANGED <<fs, state_json, wifi, ngenic, good>>

\* main.py has ended: by machine.reset(), by an uncaught exception, in the
\* recovery loop, or in the application.
BootEnded == pc \in {"reset", "halted", "recovery", "app", "app_ok"}

\* The restart after machine.reset(), or a reset of the idle device.
PowerOn == BootEnded /\ Restart /\ losses' = losses

\* A power loss or a reset while main.py or the updater is at work.
PowerLoss ==
    /\ ~BootEnded
    /\ pc # "boot"
    /\ losses < MaxPowerLosses
    /\ Restart
    /\ losses' = losses + 1

Next ==
    \/ maybe_rollback
    \/ mr_rmtree
    \/ mr_rename_app
    \/ mr_rename_prev
    \/ mr_save_open
    \/ mr_save_write
    \/ mr_reset
    \/ main_recovery_check
    \/ connect_wifi
    \/ check_and_update
    \/ apply_update
    \/ ap_rmtree_next
    \/ ap_mkdir
    \/ dl_get
    \/ dl_verify
    \/ dl_except
    \/ ap_rmtree_prev
    \/ ap_rename_app
    \/ ap_rename_next
    \/ ap_save_open
    \/ ap_save_write
    \/ ap_reset
    \/ main_count_open
    \/ main_count_write
    \/ main_import_app
    \/ app_crash
    \/ mbs_open
    \/ mbs_write
    \/ PowerOn

Spec == Init /\ [][Next]_vars

\* The same device with the record of the trees that have acknowledged a
\* boot; no tree has on the device as flashed.
InitKnownGood == InitDevice /\ good = NoneGood

SpecKnownGood == InitKnownGood /\ [][Next]_vars

\* The same device with power losses at any point.
NextPowerLoss == Next \/ PowerLoss

SpecPowerLoss == Init /\ [][NextPowerLoss]_vars

(***************************************************************************)
(* The same device on a file system whose calls can fail during the        *)
(* activation of apply_update: os.remove, os.rmdir and os.rename raise     *)
(* OSError although the reliable file system would have obeyed.            *)
(***************************************************************************)
\* _rmtree("/app_prev") on a failing file system: every OSError of
\* os.remove and os.rmdir is caught, so the directory stays with any of its
\* files, and apply_update goes on.
ap_rmtree_prev_oserror ==
    /\ pc = "ap_rmtree_prev"
    /\ fs["/app_prev"].exists
    /\ \E kept \in SUBSET fs["/app_prev"].files :
         /\ fs' = [fs EXCEPT !["/app_prev"].files = kept]
         /\ good' = IF kept = fs["/app_prev"].files
                    THEN good
                    ELSE GoodAfterRmtree(good, "/app_prev")
    /\ pc' = "ap_rename_app"
    /\ UNCHANGED <<state_json, st, dl, acks, losses, wifi, ngenic, pre, result>>

\* try: os.rename("/app", "/app_prev") / except OSError: pass, the rename
\* raising OSError: nothing is moved and apply_update goes on.
ap_rename_app_oserror ==
    /\ pc = "ap_rename_app"
    /\ fs' = fs
    /\ pc' = "ap_rename_next"
    /\ UNCHANGED <<state_json, st, dl, acks, losses, wifi, ngenic, pre, result, good>>

\* A mutant of ap_rename_next_oserror: the OSError is caught and
\* apply_update goes on to save the state.
ap_rename_next_oserror_caught ==
    /\ pc = "ap_rename_next"
    /\ fs' = fs
    /\ pc' = "ap_save"
    /\ UNCHANGED <<state_json, st, dl, acks, losses, wifi, ngenic, pre, result, good>>

\* os.rename("/next", "/app") raising OSError: nothing is moved and the
\* exception leaves apply_update; main.py catches it.
ap_rename_next_oserror ==
    /\ pc = "ap_rename_next"
    /\ fs' = fs
    /\ pc' = "count_boot"
    /\ result' = Outcome("apply_update", "raised")
    /\ UNCHANGED <<state_json, st, dl, acks, losses, wifi, ngenic, pre, good>>

NextFsFaults ==
    \/ Next
    \/ ap_rmtree_prev_oserror
    \/ ap_rename_app_oserror
    \/ ap_rename_next_oserror

SpecFsFaults == Init /\ [][NextFsFaults]_vars

(***************************************************************************)
(* The version test of check_and_update on its own, for every manifest     *)
(* version and every installed version of VersionStrings; st holds a third *)
(* version string, for the properties that relate three of them.           *)
(***************************************************************************)
InitVersions ==
    /\ fs = [r \in Roots |-> IF r = "/app" THEN FactoryTree ELSE NoTree]
    /\ state_json \in {StateRecord(cur_ver, 0, Null) : cur_ver \in VersionStrings}
    /\ manifest \in {[version |-> new_ver, files |-> <<>>] :
                       new_ver \in VersionStrings}
    /\ pc = "version_test"
    /\ st \in {StateRecord(v, 0, Null) : v \in VersionStrings}
    /\ idx = 0
    /\ attempt = 0
    /\ got = ""
    /\ sleeps = <<>>
    /\ e = NoError
    /\ last_err = NoError
    /\ errs = <<>>
    /\ fetched = {}
    /\ acks = 0
    /\ losses = 0
    /\ pre = [fs |-> fs, state_json |-> state_json]
    /\ result = NoResult
    /\ ticks_ms = 0
    /\ t0 = 0
    /\ timeout_s = DefaultTimeoutS
    /\ NewClient
    /\ good = NotTracked

\* new_ver = manifest.get("version", "0.0.0"); cur_ver = st.get(
\* "installed_version", "0.0.0"); if _parse_ver(new_ver) <=
\* _parse_ver(cur_ver): return False; else apply_update(manifest)
version_test ==
    /\ pc = "version_test"
    /\ LET new_ver == manifest.version
           cur_ver == load_state(state_json).value.installed_version
       IN  result' = Outcome("version_test",
                             IF UpdateAvailable(new_ver, cur_ver)
                             THEN "apply" ELSE "false")
    /\ pc' = "version_done"
    /\ UNCHANGED <<fs, state_json, st, dl, acks, losses, wifi, ngenic, pre, good>>

SpecVersions == InitVersions /\ [][version_test]_vars

(***************************************************************************)
(* connect_wifi(ssid, password, timeout_s) step by step, with the          *)
(* millisecond clock, and the status LED set-up of main.py before it.      *)
(* wlan.isconnected() answers as the link is at the moment of the call.    *)
(***************************************************************************)
\* time.ticks_ms() wraps at this period (MicroPython, 2^30 ms).
TICKS_PERIOD == 1073741824

\* time.ticks_add(ticks, delta)
ticks_add(ticks, delta) == (ticks + delta) % TICKS_PERIOD

\* time.ticks_diff(ticks1, ticks2): the signed difference across a wrap
ticks_diff(ticks1, ticks2) ==
    ((ticks1 - ticks2 + TICKS_PERIOD \div 2) % TICKS_PERIOD) - TICKS_PERIOD \div 2

\* What one pass of the polling loop takes: time.sleep(0.2) lasts 200 ms,
\* or more when the scheduler is late.
SleepMs == {200, 300}

\* Clock readings at the call: just after power-on, and shortly before the
\* clock wraps.
StartTicks == {0, TICKS_PERIOD - 700, TICKS_PERIOD - 5000}

\* timeout_s of the call: the default, or one second.
Timeouts == {1, DefaultTimeoutS}

InitConnect ==
    /\ fs = [r \in Roots |-> IF r = "/app" THEN FactoryTree ELSE NoTree]
    /\ state_json = AbsentFile
    /\ pc \in {"main_led", "connect_wifi"}
    /\ st = DefaultState
    /\ manifest = NoManifest
    /\ idx = 0 /\ attempt = 0 /\ got = "" /\ sleeps = <<>> /\ e = NoError
    /\ last_err = NoError /\ errs = <<>> /\ fetched = {} /\ acks = 0 /\ losses = 0
    /\ pre = [fs |-> fs, state_json |-> state_json]
    /\ result = NoResult
    /\ ticks_ms \in StartTicks
    /\ t0 = 0
    /\ timeout_s \in Timeouts
    /\ NewClient
    /\ good = NotTracked

\* main.py: led = StatusLED(pin=8); updater.set_status_led(led).  The
\* module updater has no attribute set_status_led: AttributeError, which
\* nothing catches, ends main.py.
main_set_status_led ==
    /\ pc = "main_led"
    /\ pc' = "halted"
    /\ e' = "AttributeError"
    /\ UNCHANGED <<fs, state_json, st, manifest, idx, attempt, got, sleeps,
                   last_err, errs, fetched, acks, losses, wifi, ngenic, pre, result, good>>

\* wlan.active(True); if wlan.isconnected(): return wlan
cw_active ==
    /\ pc = "connect_wifi"
    /\ \E isconnected \in BOOLEAN :
         IF isconnected
         THEN pc' = "cw_returned" /\ result' = Outcome("connect_wifi", "returned")
         ELSE pc' = "cw_connect" /\ result' = result
    /\ UNCHANGED <<fs, state_json, st, dl, acks, losses, wifi, ngenic, pre, good>>

\* wlan.connect(ssid, password); t0 = time.ticks_ms()
cw_connect ==
    /\ pc = "cw_connect"
    /\ t0' = ticks_ms
    /\ pc' = "cw_poll"
    /\ UNCHANGED <<fs, state_json, st, dl, acks, losses, ngenic, ticks_ms, timeout_s,
                   pre, result, good>>

\* A mutant of cw_poll: the loop does not test the clock.
cw_poll_untimed ==
    /\ pc = "cw_poll"
    /\ \E isconnected \in BOOLEAN :
         IF isconnected
         THEN /\ pc' = "cw_returned"
              /\ result' = Outcome("connect_wifi", "returned")
              /\ UNCHANGED <<ticks_ms, e>>
         ELSE /\ \E ms \in SleepMs : ticks_ms' = ticks_add(ticks_ms, ms)
              /\ UNCHANGED <<pc, e, result>>
    /\ UNCHANGED <<fs, state_json, st, manifest, idx, attempt, got, sleeps,
                   last_err, errs, fetched, acks, losses, ngenic, t0, timeout_s,
                   pre, good>>

\* while not wlan.isconnected(): if time.ticks_diff(time.ticks_ms(), t0) >
\* timeout_s * 1000: raise RuntimeError("Wi-Fi connect timeout");
\* time.sleep(0.2) / return wlan
cw_poll ==
    /\ pc = "cw_poll"
    /\ \E isconnected \in BOOLEAN :
         IF isconnected
         THEN /\ pc' = "cw_returned"
              /\ result' = Outcome("connect_wifi", "returned")
              /\ UNCHANGED <<ticks_ms, e>>
         ELSE IF ticks_diff(ticks_ms, t0) > timeout_s * 1000
         THEN /\ pc' = "cw_raised"
              /\ e' = "RuntimeError"
              /\ result' = Outcome("connect_wifi", "raised")
              /\ ticks_ms' = ticks_ms
         ELSE /\ \E ms \in SleepMs : ticks_ms' = ticks_add(ticks_ms, ms)
              /\ UNCHANGED <<pc, e, result>>
    /\ UNCHANGED <<fs, state_json, st, manifest, idx, attempt, got, sleeps,
                   last_err, errs, fetched, acks, losses, ngenic, t0, timeout_s,
                   pre, good>>

NextConnect ==
    \/ main_set_status_led
    \/ cw_active
    \/ cw_connect
    \/ cw_poll

SpecConnect == InitConnect /\ [][NextConnect]_vars

\* The clock is fair: the call is never left without its next step, and a
\* sleep ends.
SpecConnectFair == SpecConnect /\ WF_vars(NextConnect)

(***************************************************************************)
(* NgenicClient (lib/ngenic/ngenic_client.py): refresh_if_due and its      *)
(* backoff window, with the millisecond clock.  A call of refresh_if_due   *)
(* is one step: it is synchronous and the client has one caller.  The      *)
(* adaptive schedule of _should_poll_now is left open (it may say yes or   *)
(* no at any call); force=True passes it by.                               *)
(***************************************************************************)
\* Retry-After headers of a 429: none, "30", and "abc".
RetryAfterHeaders == {<<>>, <<"3", "0">>, <<"a", "b", "c">>}

\* What get_json can give for one GET: a status with its headers (0 when
\* the answer has no header block), or an exception of the socket.
LatestResponses ==
    {[kind |-> "http", status |-> s, retry_after |-> <<>>] : s \in {200, 204, 500}}
    \cup {[kind |-> "http", status |-> 429, retry_after |-> ra] :
            ra \in RetryAfterHeaders}
    \cup {[kind |-> "neterr", status |-> 0, retry_after |-> <<>>]}

\* The clock reading at which the client is made: 20 s before it wraps.
ClientMadeAt == TICKS_PERIOD - 20000

\* The clock moves in steps of 5 s.
TickMs == 5000

\* wait_s of _fetch_value_and_time: int(ra) if ra else 60, 60 on ValueError
RetryAfterSeconds(ra) ==
    IF ra = <<>> THEN 60
    ELSE IF IntOfStr(ra).ok THEN IntOfStr(ra).val ELSE 60

Min(a, b) == IF a <= b THEN a ELSE b

\* backoff_s of refresh_if_due: min(120, 5 * (2 ** min(fail_count - 1, 4)))
BackoffSeconds(fail_count) == Min(120, 5 * (2 ^ Min(fail_count - 1, 4)))

\* _set_backoff(seconds): the value it gives _next_allowed_ms
_set_backoff(seconds) == ticks_add(ticks_ms, seconds * 1000)

\* _in_backoff()
_in_backoff == ticks_diff(ticks_ms, _next_allowed_ms) < 0

\* _fetch_value_and_time raises: on 429 and on a status other than 200 and
\* 204; get_json raises on a socket error.
FetchRaises(r) == r.kind = "neterr" \/ r.status \notin {200, 204}

\* _next_allowed_ms after a poll whose request r has failed: on a 429
\* _fetch_value_and_time calls _set_backoff(wait_s) and raises; the except
\* block of refresh_if_due then calls _set_backoff(backoff_s), whatever the
\* exception was.
BackoffAfterFailure(r, fail_count) ==
    _set_backoff(BackoffSeconds(fail_count))

InitNgenic ==
    /\ fs = [r \in Roots |-> IF r = "/app" THEN FactoryTree ELSE NoTree]
    /\ state_json = AbsentFile
    /\ pc = "ngenic"
    /\ st = DefaultState
    /\ manifest = NoManifest
    /\ idx = 0 /\ attempt = 0 /\ got = "" /\ sleeps = <<>> /\ e = NoError
    /\ last_err = NoError /\ errs = <<>> /\ fetched = {} /\ acks = 0 /\ losses = 0
    /\ pre = [fs |-> fs, state_json |-> state_json]
    /\ result = NoResult
    /\ ticks_ms = ClientMadeAt
    /\ t0 = 0
    /\ timeout_s = DefaultTimeoutS
    /\ NewClient
    /\ good = NotTracked

\* Time passes between two calls of the main loop.
ngenic_tick ==
    /\ pc = "ngenic"
    /\ ticks_diff(ticks_ms, ClientMadeAt) < MaxClientSeconds * 1000
    /\ ticks_ms' = ticks_add(ticks_ms, TickMs)
    /\ UNCHANGED <<fs, state_json, pc, st, dl, acks, losses, pre, result, t0,
                   timeout_s, ngenic, good>>

\* refresh_if_due(force): nothing in the backoff window or when no poll is
\* due; else the import request and, if it gave a value, the export
\* request; the first request that fails ends the poll in the except
\* block.
refresh_if_due ==
    /\ pc = "ngenic"
    /\ _fail_count < MaxFailCount
    /\ ~_in_backoff
    /\ \E force \in BOOLEAN, _should_poll_now \in BOOLEAN :
         force \/ _should_poll_now
    /\ requested' = [on |-> TRUE, at |-> ticks_ms]
    /\ \E imp \in LatestResponses :
         \E exp \in IF FetchRaises(imp) THEN {imp} ELSE LatestResponses :
              LET failed == FetchRaises(imp) \/ FetchRaises(exp)
                  r == IF FetchRaises(imp) THEN imp ELSE exp
              IN  IF failed
                  THEN /\ _fail_count' = _fail_count + 1
                       /\ _cache' = [ok |-> FALSE,
                                     last_error |-> IF r.kind = "neterr"
                                                    THEN "OSError"
                                                    ELSE "RuntimeError"]
                       /\ _next_allowed_ms' =
                              BackoffAfterFailure(r, _fail_count + 1)
                       /\ limited' = IF r.kind = "http" /\ r.status = 429
                                     THEN [on |-> TRUE, at |-> ticks_ms,
                                           wait_s |-> RetryAfterSeconds(r.retry_after)]
                                     ELSE limited
                  ELSE /\ _fail_count' = 0
                       /\ _cache' = [ok |-> TRUE, last_error |-> NoError]
                       /\ UNCHANGED <<_next_allowed_ms, limited>>
    /\ UNCHANGED <<fs, state_json, pc, st, dl, acks, losses, pre, result, wifi, good>>

NextNgenic == ngenic_tick \/ refresh_if_due

SpecNgenic == InitNgenic /\ [][NextNgenic]_vars

(***************************************************************************)
(* The device after a reset between the two activation renames of          *)
(* apply_update: a device on its factory tree has downloaded version 1.2,  *)
(* removed /app_prev and renamed /app to /app_prev, and has lost its power *)
(* before the rename of /next to /app.  It starts main.py again, and it    *)
(* can lose its power as before.                                           *)
(***************************************************************************)
\* The tree apply_update has built in /next from the n files of version v.
StagedTree(v, n) == [exists |-> TRUE, files |-> {<<p, ContentOf(v)>> : p \in 1..n}]

\* The state file of the factory device: none yet, or the record of a boot
\* that main.py has counted.
FactoryStateFiles == {AbsentFile, StateRecord(V000, 1, Null)}

InitInterrupted ==
    /\ fs \in {[r \in Roots |-> IF r = "/app_prev" THEN FactoryTree
                                 ELSE IF r = "/next" THEN StagedTree(v, n)
                                 ELSE NoTree] :
                 v \in {V12}, n \in 1..MaxFiles}
    /\ state_json \in FactoryStateFiles
    /\ pc = "boot"
    /\ st = DefaultState
    /\ manifest = NoManifest
    /\ idx = 0 /\ attempt = 0 /\ got = "" /\ sleeps = <<>> /\ e = NoError
    /\ last_err = NoError /\ errs = <<>> /\ fetched = {} /\ acks = 0 /\ losses = 0
    /\ pre = [fs |-> fs, state_json |-> state_json]
    /\ result = NoResult
    /\ ticks_ms = 0
    /\ t0 = 0
    /\ timeout_s = DefaultTimeoutS
    /\ NewClient
    /\ good = NotTracked

SpecInterrupted == InitInterrupted /\ [][NextPowerLoss]_vars

(***************************************************************************)
(* Properties.                                                             *)
(***************************************************************************)
\* The record load_state gives for a state file.
Loaded(file) == load_state(file).value

\* apply_update has raised and main.py has caught the exception.
ApplyRaised == pc = "count_boot" /\ result = Outcome("apply_update", "raised")

\* A file of the manifest has failed on all its attempts.
DownloadExhausted ==
    /\ ApplyRaised
    /\ manifest.files # <<>>
    /\ attempt = retries
    /\ Len(sleeps) = retries + 1

\* C1: apply_update is all-or-nothing.  When a file of the manifest has
\* failed on all its attempts, at whatever position, and apply_update has
\* raised, the active tree, the previous tree, the quarantine tree and
\* /state.json are what they were when apply_update was called, and no
\* restart has been triggered (main.py goes on to count the boot).
C1_FailedApplyLeavesFlash ==
    DownloadExhausted =>
        /\ fs["/app"] = pre.fs["/app"]
        /\ fs["/app_prev"] = pre.fs["/app_prev"]
        /\ fs["/app_bad"] = pre.fs["/app_bad"]
        /\ state_json = pre.state_json
        /\ result.out # "reset"

\* C1 witness: the second file of a manifest failed three times, after the
\* first was verified, on a device that has an active and a previous tree.
C1_Witness ==
    /\ DownloadExhausted
    /\ idx = 2
    /\ fetched = {1}
    /\ pre.fs["/app"].files # {}
    /\ pre.fs["/app_prev"].exists

\* The tree holds, for the manifest entry, a file whose digest is the
\* manifest's (compared without regard to case and to white space around
\* it), or any file when the manifest gives no digest.
EntryVerifiedIn(tree, entry) ==
    \E f \in tree.files :
        /\ f[1] = entry.path
        /\ NormalizeDigest(entry.sha256) # ""
             => Sha256(f[2]) = NormalizeDigest(entry.sha256)

AllVerifiedIn(tree) ==
    /\ fetched = 1..Len(manifest.files)
    /\ \A i \in 1..Len(manifest.files) : EntryVerifiedIn(tree, manifest.files[i])

TupleGreater(a, b) ==
    \/ \E k \in 1..Len(a) :
          /\ k <= Len(b)
          /\ a[k] > b[k]
          /\ \A j \in 1..(k - 1) : a[j] = b[j]
    \/ /\ Len(a) > Len(b)
       /\ \A j \in 1..Len(b) : a[j] = b[j]

ManifestIsNewer ==
    TupleGreater(_parse_ver(manifest.version),
                 _parse_ver(Loaded(pre.state_json).installed_version))

\* C3: check_and_update calls apply_update only with a manifest whose
\* version is strictly newer than the installed one; with an equal or older
\* version it returns False and nothing has happened: no download, the
\* four trees and /state.json as they were, no restart.
C3_UpdateOnlyIfStrictlyNewer ==
    /\ pc = "apply" => ManifestIsNewer
    /\ pc = "count_boot" /\ result = Outcome("check_and_update", "false")
         => /\ ~ManifestIsNewer
            /\ Flash = pre
            /\ fetched = {}
            /\ idx = 0

\* C3 witness: the server still offers the version that is installed (a
\* tie), with files, after that version was installed by an update.
C3_Witness ==
    /\ pc = "count_boot"
    /\ result = Outcome("check_and_update", "false")
    /\ manifest.version = V12
    /\ manifest.files # <<>>
    /\ state_json.kind = "record"
    /\ state_json.installed_version = V12

\* maybe_rollback found the rollback due when it was called.
RollbackWasDue ==
    /\ Loaded(pre.state_json).boot_failures >= max_failures
    /\ pre.fs["/app_prev"].exists

\* maybe_rollback has persisted the state and is at, or past, machine.reset().
RolledBack ==
    \/ pc = "mr_reset"
    \/ pc = "reset" /\ result = Outcome("maybe_rollback", "reset")

\* C4: when boot_failures >= max_failures and a previous tree exists,
\* maybe_rollback does not return False, and it ends with the active tree
\* equal to the previous tree of before the call, the quarantine tree equal
\* to the active tree of before the call (an older quarantine tree is
\* gone), no previous tree, the persisted record with boot_failures = 0 and
\* pending_version = null (installed_version kept), and the restart
\* triggered only once that record is on flash.
C4_RollbackRestoresPrevious ==
    /\ pc = "secrets" /\ result = Outcome("maybe_rollback", "false")
         => ~RollbackWasDue
    /\ RolledBack =>
         /\ RollbackWasDue
         /\ fs["/app"] = pre.fs["/app_prev"]
         /\ fs["/app_bad"] = pre.fs["/app"]
         /\ ~fs["/app_prev"].exists
         /\ state_json = [Loaded(pre.state_json) EXCEPT
                            !.boot_failures = 0, !.pending_version = Null]

\* C4 witness: a rollback has ended in the restart on a device whose
\* counter had reached max_failures, that had a pending version, and that
\* had an older quarantine tree, different from the active one.
C4_Witness ==
    /\ pc = "reset"
    /\ result = Outcome("maybe_rollback", "reset")
    /\ Loaded(pre.state_json).boot_failures = max_failures
    /\ Loaded(pre.state_json).pending_version # Null
    /\ pre.fs["/app_bad"].exists
    /\ pre.fs["/app_bad"] # pre.fs["/app"]

\* C5: maybe_rollback acts only when boot_failures >= max_failures and a
\* previous tree exists.  In every other case it returns False with the
\* four trees and /state.json as they were and no restart.
C5_RollbackNoOp ==
    /\ pc \in {"mr_rmtree", "mr_rename_app", "mr_rename_prev", "mr_save",
               "mr_save_write", "mr_reset"} => RollbackWasDue
    /\ result.op = "maybe_rollback" /\ result.out = "reset" => RollbackWasDue
    /\ pc = "secrets" /\ result = Outcome("maybe_rollback", "false")
         => Flash = pre

\* C5 witness: maybe_rollback has returned False with the counter at
\* max_failures or more, because there is no previous tree.
C5_Witness ==
    /\ pc = "secrets"
    /\ result = Outcome("maybe_rollback", "false")
    /\ Loaded(pre.state_json).boot_failures >= max_failures
    /\ ~pre.fs["/app_prev"].exists

\* apply_update has persisted the state and is at, or past, machine.reset().
Applied ==
    \/ pc = "ap_reset"
    \/ pc = "reset" /\ result = Outcome("apply_update", "reset")

\* C6: after a successful apply_update the persisted record has
\* installed_version = pending_version = manifest.version and
\* boot_failures = 0, whatever it was before; it is written after both
\* activation renames (until they are done /state.json is as it was) and
\* is on flash when the restart is triggered.
C6_AppliedStatePersisted ==
    /\ Applied =>
         /\ state_json = StateRecord(manifest.version, 0, manifest.version)
         /\ ~fs["/next"].exists
         /\ fs["/app"].exists
    /\ pc \in {"ap_rmtree_next", "ap_mkdir", "dl_get", "dl_verify", "dl_except",
               "ap_rmtree_prev", "ap_rename_app", "ap_rename_next", "ap_save"}
         => state_json = pre.state_json

\* C6 witness: an update has been applied on a device whose record had a
\* non-zero counter, another installed version and a pending version.
C6_Witness ==
    /\ pc = "reset"
    /\ result = Outcome("apply_update", "reset")
    /\ pre.state_json.kind = "record"
    /\ pre.state_json.boot_failures > 0
    /\ pre.state_json.pending_version = V12
    /\ manifest.version = V110

\* The activation renames of apply_update are done.
Activated ==
    \/ pc \in {"ap_save", "ap_save_write", "ap_reset"}
    \/ pc = "reset" /\ result = Outcome("apply_update", "reset")

\* C7: after a successful apply_update the active tree holds exactly the
\* files the manifest lists, the previous tree is the tree that was active
\* when apply_update was called (none if there was none), and there is no
\* staging tree.
C7_ActivatedTrees ==
    Activated =>
        /\ fs["/app"].exists
        /\ {f[1] : f \in fs["/app"].files}
             = {manifest.files[i].path : i \in 1..Len(manifest.files)}
        /\ Cardinality(fs["/app"].files) = Len(manifest.files)
        /\ fs["/app_prev"] = pre.fs["/app"]
        /\ ~fs["/next"].exists

\* C7 witness: an update of one file has replaced an active tree of two
\* files, on a device that had another previous tree.
C7_Witness ==
    /\ Activated
    /\ Len(manifest.files) = 1
    /\ Cardinality(pre.fs["/app"].files) = 2
    /\ pre.fs["/app_prev"].exists
    /\ pre.fs["/app_prev"] # pre.fs["/app"]

\* mark_boot_success has returned.
Acknowledged ==
    pc = "app_ok" /\ result = Outcome("mark_boot_success", "returned")

\* C8: mark_boot_success leaves the persisted record with boot_failures = 0
\* and pending_version = null and with the installed_version it had,
\* whatever the record was; a second call leaves the record of the first.
C8_MarkBootSuccess ==
    Acknowledged =>
        /\ state_json = [Loaded(pre.state_json) EXCEPT
                           !.boot_failures = 0, !.pending_version = Null]
        /\ acks >= 2 => state_json = pre.state_json

\* C8 witness: the first call, on a record with a counter of two or more
\* and a pending version.
C8_Witness ==
    /\ Acknowledged
    /\ acks = 1
    /\ pre.state_json.kind = "record"
    /\ pre.state_json.boot_failures >= 2
    /\ pre.state_json.pending_version # Null
    /\ pre.state_json.installed_version # V000

\* The positions at which the next step calls load_state.
AtLoadState == pc \in {"boot", "check", "ap_save", "count_boot", "app", "app_ok"}

\* C9: load_state never surfaces an error.  Whatever /state.json holds,
\* absent or not JSON, load_state gives a record (the default one), and no
\* call of maybe_rollback, check_and_update or mark_boot_success ends in an
\* exception on a state file that is not JSON.
C9_LoadStateNeverRaises ==
    /\ AtLoadState => /\ ~load_state(state_json).raised
                      /\ state_json.kind # "record"
                           => load_state(state_json).value = DefaultState
    /\ ~(/\ result.out = "raised"
         /\ result.op \in {"maybe_rollback", "check_and_update",
                           "mark_boot_success"}
         /\ pre.state_json.kind = "malformed")

\* The persisted counter now, and when the current updater call (or, before
\* the first one, the boot) began.
NewCount == state_json.boot_failures
OldCount == Loaded(pre.state_json).boot_failures

\* main.py has counted this boot and no updater call has begun since.
Counted == pc \in {"import_app", "app", "halted"}

\* C10 as stated: the persisted boot_failures is a non-negative integer; a
\* boot that gets to start the application has increased it by exactly
\* one; apart from that it changes only by being reset to 0 by
\* mark_boot_success or by a rollback.
C10_CounterStepsStated ==
    /\ state_json.kind = "record" =>
         /\ NewCount \in Nat
         /\ \/ NewCount = OldCount
            \/ NewCount = OldCount + 1 /\ Counted
            \/ NewCount = 0 /\ result.op = "mark_boot_success"
            \/ NewCount = 0 /\ RolledBack
    /\ pc \in {"import_app", "app"} =>
         state_json.kind = "record" /\ NewCount = OldCount + 1

\* C10 as amended: the same, with the reset to 0 a successful apply_update
\* persists before it restarts the device.
C10_CounterSteps ==
    /\ state_json.kind = "record" =>
         /\ NewCount \in Nat
         /\ \/ NewCount = OldCount
            \/ NewCount = OldCount + 1 /\ Counted
            \/ NewCount = 0 /\ result.op = "mark_boot_success"
            \/ NewCount = 0 /\ RolledBack
            \/ NewCount = 0 /\ Applied
    /\ pc \in {"import_app", "app"} =>
         state_json.kind = "record" /\ NewCount = OldCount + 1

\* C10 witness: the application is started on the third boot in a row that
\* nothing has acknowledged, with the counter gone from 2 to 3.
C10_Witness ==
    /\ pc = "app"
    /\ OldCount = 2
    /\ state_json.kind = "record"
    /\ NewCount = 3
    /\ state_json.pending_version # Null

\* main.py is between the Wi-Fi connect and the end of check_and_update:
\* connecting, fetching the manifest, downloading or swapping.
InOta ==
    pc \in {"wifi", "check", "apply", "ap_rmtree_next", "ap_mkdir", "dl_get",
            "dl_verify", "dl_except", "ap_rmtree_prev", "ap_rename_app",
            "ap_rename_next", "ap_save", "ap_save_write", "ap_reset"}

\* C11: on every boot the rollback check runs before any network activity.
\* Whenever main.py is about to connect to the Wi-Fi, to fetch the manifest
\* or to download a file, the last updater call that has ended in this boot
\* is maybe_rollback and it has returned False (the record of the calls is
\* emptied by every restart).
C11_RollbackCheckFirst ==
    InOta => result = Outcome("maybe_rollback", "false")

\* C11 witness: a file is being downloaded for the second time in a boot
\* of a device whose counter has reached max_failures (and that has no
\* previous tree to go back to).
C11_Witness ==
    /\ pc = "dl_get"
    /\ attempt = 1
    /\ Loaded(state_json).boot_failures >= max_failures
    /\ result = Outcome("maybe_rollback", "false")

\* apply_update is past its test of the file list: it is preparing the
\* staging tree, downloading or swapping.
ApplyUnderWay ==
    pc \in {"ap_rmtree_next", "ap_mkdir", "dl_get", "dl_verify", "dl_except",
            "ap_rmtree_prev", "ap_rename_app", "ap_rename_next", "ap_save",
            "ap_save_write", "ap_reset"}

\* C12 as stated: once an applied update has failed to acknowledge a boot
\* (boot_failures > 0 and a pending version, which mark_boot_success and
\* the rollback clear) and a previous tree exists, no apply_update
\* downloads or swaps before the rollback has restored the previous tree.
C12_NoApplyWhileFailingStated ==
    ApplyUnderWay =>
        ~(/\ OldCount > 0
          /\ Loaded(pre.state_json).pending_version # Null
          /\ pre.fs["/app_prev"].exists)

\* C12 as amended: the same with the threshold of the rollback check.  No
\* apply_update downloads or swaps on a flash where boot_failures has
\* reached max_failures and a previous tree exists: the rollback check of
\* the boot has then moved the previous tree to /app (and restarted).
C12_NoApplyWhileCrashLooping ==
    ApplyUnderWay =>
        ~(/\ OldCount >= max_failures
          /\ pre.fs["/app_prev"].exists)

\* C12 witness: an update is being downloaded on a device that a rollback
\* has brought back to its factory tree, the tree of the failed update
\* being in quarantine and its version still the installed one.
C12_Witness ==
    /\ pc = "dl_get"
    /\ fs["/app_bad"].exists
    /\ fs["/app_bad"] # FactoryTree
    /\ fs["/app"] = FactoryTree
    /\ ~pre.fs["/app_prev"].exists
    /\ Loaded(pre.state_json).installed_version = V12
    /\ manifest.version = V110

\* The update check of this boot has ended in an exception that main.py
\* has caught: of connect_wifi, of the manifest fetch or of apply_update.
OtaFailed ==
    /\ result.out = "raised"
    /\ result.op \in {"connect_wifi", "check_and_update", "apply_update"}

InDownload == pc \in {"dl_get", "dl_verify", "dl_except"}

\* The staging tree holds a file at the destination of the current entry.
DestExists == \E f \in fs[DestRoot].files : f[1] = item.path

\* _download_with_hash has raised out of apply_update and main.py has
\* caught the exception (apply_update with an empty file list raises
\* before any download).
DownloadRaised == ApplyRaised /\ manifest.files # <<>>

\* C14: _download_with_hash makes at most retries + 1 = 3 attempts for a
\* file.  An attempt is made only while every earlier attempt of the call
\* has ended in an exception (attempt counts them), never for a file whose
\* download has returned; a retry starts with no file at the destination;
\* and the call raises only after three failed attempts, the exception
\* that reaches main.py being the one of the third attempt.
C14_AtMostThreeAttempts ==
    /\ InDownload =>
         /\ attempt \in 0..retries
         /\ idx \notin fetched
         /\ Len(errs) = attempt
         /\ \A i \in 1..Len(errs) : errs[i] \in {"OSError", "HTTP", "SHA256"}
    /\ pc = "dl_get" /\ attempt > 0 => ~DestExists
    /\ pc = "dl_verify" /\ DigestAccepted(item.sha256, got) =>
         /\ DestExists
         /\ Len(errs) <= retries
    /\ DownloadRaised =>
         /\ Len(errs) = retries + 1
         /\ idx \notin fetched
         /\ e = errs[retries + 1]
         /\ e # NoError

\* C14 witness: a download has raised after three attempts that failed in
\* three ways, the digest mismatch last.
C14_Witness ==
    /\ DownloadRaised
    /\ errs = <<"HTTP", "OSError", "SHA256">>
    /\ e = "SHA256"

\* C15 as stated: backoff sleeps happen before a retry only.  While a
\* download is at work the sleeps of the call are as many as its failed
\* attempts that a retry has followed, at most retries = 2, of 0.5 and 1.0
\* time-units in this order; and when the call has raised after its last
\* attempt it has slept no more than that (sleeps holds tenths).
C15_SleepsBeforeRetriesOnly ==
    /\ pc \in {"dl_get", "dl_verify"} =>
         /\ Len(sleeps) = attempt
         /\ sleeps = SubSeq(<<5, 10>>, 1, attempt)
    /\ DownloadRaised =>
         /\ Len(sleeps) = retries
         /\ sleeps = <<5, 10>>

\* Every attempt of the call has ended in the digest mismatch.
AllMismatched == \A i \in 1..Len(errs) : errs[i] = "SHA256"

\* The streamed body has another digest than the non-empty one the
\* manifest gives for the current entry.
Mismatch ==
    /\ NormalizeDigest(item.sha256) # ""
    /\ got # NormalizeDigest(item.sha256)

C16_MismatchStates ==
    /\ pc = "dl_except" /\ e = "SHA256" => Mismatch /\ ~DestExists
    /\ DownloadRaised => ~DestExists /\ idx \notin fetched
    /\ DownloadRaised /\ AllMismatched => e = "SHA256"

StagedPaths == {f[1] : f \in fs["/next"].files}

C17_InOrderStates ==
    /\ InDownload =>
         /\ idx \in 1..Len(manifest.files)
         /\ fetched = 1..(idx - 1)
         /\ StagedPaths \subseteq {manifest.files[i].path : i \in 1..idx}
    /\ DownloadRaised =>
         /\ fetched = 1..(idx - 1)
         /\ fs["/next"].exists
         /\ StagedPaths = {manifest.files[i].path : i \in 1..(idx - 1)}
         /\ Cardinality(fs["/next"].files) = idx - 1
         /\ \A i \in 1..(idx - 1) : EntryVerifiedIn(fs["/next"], manifest.files[i])

\* C17: the files are fetched one at a time in the order of the manifest,
\* and the first file that fails on all its attempts aborts apply_update.
\* A download is at work on file idx only when the downloads of exactly
\* the files before it have returned, and the staging tree holds nothing
\* of a later file; when file idx has failed, the staging tree holds
\* exactly the files before it, each with the digest of the manifest, and
\* no copy of file idx; and the next step of main.py is the boot count,
\* not another download: no file after idx is fetched.
C17_FirstFailureAborts ==
    /\ []C17_InOrderStates
    /\ [][/\ InDownload /\ InDownload' =>
               /\ manifest' = manifest
               /\ idx' \in {idx, idx + 1}
               /\ idx' = idx + 1 => fetched' = 1..idx
          /\ DownloadRaised => pc' = "count_write" /\ fetched' = {} /\ fs' = fs]_vars

\* C17 witness: the first of two files has failed on all its attempts; the
\* second has not been fetched and the staging tree is empty.
C17_Witness ==
    /\ DownloadRaised
    /\ idx = 1
    /\ Len(manifest.files) = 2
    /\ fs["/next"] = EmptyTree
    /\ fs["/app"].exists

\* The download of the current entry returns in this step.
Accepts == pc = "dl_verify" /\ idx \notin fetched /\ idx \in fetched'

\* C18 as stated: the comparison is skipped exactly when the sha256 of the
\* manifest is empty or missing.  An attempt that has got status 200 and
\* the whole body is accepted if and only if the sha256 of the entry is
\* the empty string or is the computed lower-case digest.
C18_SkippedIffEmptyStated ==
    [][pc = "dl_verify" =>
         (Accepts <=> item.sha256 = "" \/ got = item.sha256)]_vars

\* The manifest gives no digest: nothing is left of its sha256 once the
\* white space is stripped.
NoDigest(sha256) == sha256 \in {"", Blank}

\* The sha256 of the manifest is the computed digest in lower case, in
\* upper case, or with white space around it.
SameDigest(sha256, computed) ==
    \E i \in 1..Len(HexLower) :
        /\ computed = HexLower[i]
        /\ sha256 \in {HexLower[i], HexUpper[i], HexPadded[i]}

\* C18 as amended: the comparison is skipped exactly when the sha256 of
\* the manifest is empty once white space is stripped (or is missing), and
\* a file with another sha256 is accepted only if the computed lower-case
\* digest equals that sha256 stripped and in lower case.  An attempt that
\* has got status 200 and the whole body is accepted if and only if one
\* of the two is the case; whatever the body when there is no digest.
C18_SkippedIffEmpty ==
    [][pc = "dl_verify" =>
         (Accepts <=> NoDigest(item.sha256) \/ SameDigest(item.sha256, got))]_vars

\* C18 witness: a corrupted body has been accepted for an entry whose
\* sha256 is white space, after the genuine body of an entry whose digest
\* the manifest gives in upper case.
C18_Witness ==
    /\ pc = "ap_rmtree_prev"
    /\ fetched = {1, 2}
    /\ manifest.files[1].sha256 \in {HexUpper[i] : i \in 1..Len(HexUpper)}
    /\ manifest.files[2].sha256 = Blank
    /\ <<2, Garbage>> \in fs["/next"].files
    /\ got = Sha256(Garbage)

\* The version test has been made with this manifest version (candidate)
\* and this installed version (current), and has found the candidate newer
\* or not.
Tested(candidate, current) ==
    /\ pc = "version_done"
    /\ manifest.version = candidate
    /\ state_json.installed_version = current

isNewer == result = Outcome("version_test", "apply")

\* C19 as stated: with isNewer(candidate, current), isNewer("1.2.3",
\* "1.2.10") is true and isNewer("0.9.12", "0.10.0") is true.
C19_IsNewerExamplesStated ==
    /\ Tested(V123, V1210) => isNewer
    /\ Tested(V0912, V0100) => isNewer

\* C19 as amended: the arguments of the two examples are the other way
\* round.  isNewer("1.2.10", "1.2.3") is true and isNewer("0.10.0",
\* "0.9.12") is true (10 is greater than 3, and 10 than 9, as integers);
\* in the order stated both are false.
C19_IsNewerExamples ==
    /\ Tested(V1210, V123) => isNewer
    /\ Tested(V0100, V0912) => isNewer
    /\ Tested(V123, V1210) => ~isNewer
    /\ Tested(V0912, V0100) => ~isNewer

\* C19 witness: the manifest offers "1.2.10" to a device that has "1.2.3"
\* and the test has sent it on to apply_update.
C19_Witness == Tested(V1210, V123) /\ isNewer

\* The integers a version string of VersionStrings is made of, written
\* out as int() reads them (a sign is read); a string with a component
\* that int() refuses, as "abc", counts as (0).
Components(v) ==
    CASE v = V123 -> <<1, 2, 3>>
      [] v = V1210 -> <<1, 2, 10>>
      [] v = V0912 -> <<0, 9, 12>>
      [] v = V0100 -> <<0, 10, 0>>
      [] v = V20 -> <<2, 0>>
      [] v = V199 -> <<1, 9, 9>>
      [] v = V10 -> <<1, 0>>
      [] v = V100 -> <<1, 0, 0>>
      [] v = Vabc -> <<0>>
      [] v = V000 -> <<0, 0, 0>>
      [] v = V12 -> <<1, 2>>
      [] v = V110 -> <<1, 10>>
      [] v = V1dd2 -> <<0>>
      [] v = V1x -> <<0>>
      [] v = Vm10 -> <<0 - 1, 0>>
      [] v = Vp20 -> <<2, 0>>
      [] v = Vnone -> <<0>>

\* C20: the versions are compared component by component as integers, not
\* as text.  isNewer("2.0", "1.9.9") is true, isNewer("abc", "1.0") is
\* false, "1.0.0" is newer than "1.0" and not the other way round, and for
\* every candidate and current version isNewer holds exactly when the
\* tuple of the candidate's integers is greater than the tuple of the
\* current version's in the lexicographic order, in which a tuple is
\* greater than each of its proper prefixes.
C20_ComponentwiseOnIntegers ==
    /\ Tested(V20, V199) => isNewer
    /\ Tested(Vabc, V10) => ~isNewer
    /\ Tested(V100, V10) => isNewer
    /\ Tested(V10, V100) => ~isNewer
    /\ pc = "version_done" =>
         (isNewer <=> TupleGreater(Components(manifest.version),
                                   Components(state_json.installed_version)))

\* C20 witness: the manifest offers "1.0.0" to a device that has "1.0" and
\* the test has sent it on to apply_update.
C20_Witness == Tested(V100, V10) /\ isNewer

\* The strings of VersionStrings that are not dot-separated lists of
\* unsigned integers: a component is empty, has a letter or has a sign.
NotUnsignedLists == {V1dd2, V1x, Vm10, Vp20, Vabc, Vnone}

\* The installed versions whose tuple is at least (0).
AtLeastZero == VersionStrings \ {Vm10}

\* C21: version parsing maps every string that is not a dot-separated list
\* of unsigned integers to the tuple (0): "1..2", "1.x" and "-1.0" are
\* parsed as (0), and a manifest with such a version has never been found
\* newer than an installed version whose tuple is at least (0).
C21_MalformedVersionIsZero ==
    pc = "version_done" /\ manifest.version \in NotUnsignedLists =>
        /\ _parse_ver(manifest.version) = <<0>>
        /\ state_json.installed_version \in AtLeastZero => ~isNewer

\* C22: isNewer is a strict weak ordering over the version strings, the
\* unparsable ones included.  For the manifest version a, the installed
\* version b and any third version c: the test that was made has given
\* isNewer(a, b); isNewer(a, a) is false; isNewer(a, b) and isNewer(b, a)
\* do not both hold; isNewer(a, b) and isNewer(b, c) give isNewer(a, c);
\* and when neither of a, b is newer than the other and neither of b, c,
\* then neither of a, c is.
C22_StrictWeakOrdering ==
    pc = "version_done" =>
        LET a == manifest.version
            b == state_json.installed_version
            c == st.installed_version
            N(x, y) == UpdateAvailable(x, y)
            Same(x, y) == ~N(x, y) /\ ~N(y, x)
        IN  /\ isNewer <=> N(a, b)
            /\ ~N(a, a)
            /\ ~(N(a, b) /\ N(b, a))
            /\ N(a, b) /\ N(b, c) => N(a, c)
            /\ Same(a, b) /\ Same(b, c) => Same(a, c)

\* C22 witness: "2.0" has been found newer than "1.9.9", which is newer
\* than the unparsable "abc".
C22_Witness ==
    /\ Tested(V20, V199)
    /\ isNewer
    /\ st.installed_version = Vabc

\* The active-tree location holds an application tree: /app exists and has
\* the module main.py imports.
HasActiveTree ==
    /\ fs["/app"].exists
    /\ \E f \in fs["/app"].files : f[1] = AppMainPath

\* C23: once an active tree exists, one exists at every moment: no step of
\* apply_update or maybe_rollback, the step between their two renames
\* included, and no restart leaves the active-tree location without a
\* complete application tree.
C23_ActiveTreeAlways == [][HasActiveTree => HasActiveTree']_vars

\* C24 as stated: the activation step deletes any existing quarantine tree:
\* after every successful apply no quarantine tree exists.
C24_NoQuarantineAfterApplyStated ==
    Applied => ~fs["/app_bad"].exists

\* C24: the activation step deletes any existing previous tree before it
\* renames the active tree to the previous-tree location, and leaves the
\* quarantine tree alone: after every successful apply the quarantine tree
\* is what it was before the apply, and the previous tree is the tree that
\* was active.
C24_PreviousDeletedQuarantineKept ==
    /\ pc = "ap_rename_app" =>
         /\ ~fs["/app_prev"].exists
         /\ fs["/app_bad"] = pre.fs["/app_bad"]
    /\ Applied =>
         /\ fs["/app_bad"] = pre.fs["/app_bad"]
         /\ pre.fs["/app"].exists => fs["/app_prev"] = pre.fs["/app"]

\* C24 witness: an apply has succeeded on a device that had a quarantine
\* tree from an earlier rollback, and the quarantine tree is still there.
C24_Witness ==
    /\ Applied
    /\ pre.fs["/app_bad"].exists
    /\ fs["/app_bad"].exists
    /\ fs["/app_prev"] = FactoryTree

\* apply_update is at work and has not yet completed its swap: it is
\* staging, downloading, or at one of the three steps of the activation.
BeforeSwap ==
    pc \in {"ap_rmtree_next", "ap_mkdir", "dl_get", "dl_verify", "dl_except",
            "ap_rmtree_prev", "ap_rename_app", "ap_rename_next"}

\* C25: whenever a previous tree exists, it is the tree that was active
\* immediately before the most recent successful swap, and no other earlier
\* generation is kept.  While an apply has not completed its swap, the
\* most recent successful swap is the one it was when the boot began, so
\* a previous tree is the one the boot began with; once the apply has
\* swapped, the previous tree is the tree that was active when it began.
C25_PreviousIsLastSwapped ==
    /\ BeforeSwap /\ fs["/app_prev"].exists =>
         fs["/app_prev"] = pre.fs["/app_prev"]
    /\ Applied /\ fs["/app_prev"].exists =>
         fs["/app_prev"] = pre.fs["/app"]

\* A step of apply_update at one of its two activation renames in which
\* nothing was moved: os.rename has raised OSError.
RenameError(at) == pc = at /\ fs' = fs

\* The exception leaves apply_update and is caught by main.py.
Propagated == pc' = "count_boot" /\ result' = Outcome("apply_update", "raised")

\* C26 as stated: an OSError of either activation rename is propagated to
\* the caller of apply_update, and the deletion of the old previous tree
\* never raises.
C26_RenameErrorsPropagateStated ==
    [][/\ RenameError("ap_rename_app") => Propagated
       /\ RenameError("ap_rename_next") => Propagated
       /\ pc = "ap_rmtree_prev" => pc' = "ap_rename_app" /\ result' = result]_vars

\* C26: an OSError of the rename of the staging tree to the active-tree
\* location is propagated to the caller of apply_update; an OSError of the
\* rename of the active tree to the previous-tree location is swallowed and
\* the activation goes on to the second rename; and the deletion of the
\* old previous tree never raises, whatever it leaves behind.
C26_SecondRenameErrorPropagates ==
    [][/\ RenameError("ap_rename_app") => pc' = "ap_rename_next" /\ result' = result
       /\ RenameError("ap_rename_next") => Propagated
       /\ pc = "ap_rmtree_prev" => pc' = "ap_rename_app" /\ result' = result]_vars

\* C26 witness: every file was verified, the old previous tree could not be
\* deleted, the active tree could not be moved, and the OSError of the
\* second rename has reached main.py with all four trees in place.
C26_Witness ==
    /\ pc = "count_boot"
    /\ result = Outcome("apply_update", "raised")
    /\ manifest.files # <<>>
    /\ fetched = 1..Len(manifest.files)
    /\ fs["/next"].exists
    /\ fs["/app"] = pre.fs["/app"]
    /\ fs["/app"].exists
    /\ fs["/app_prev"].exists
    /\ fs["/app_prev"] = pre.fs["/app_prev"]

\* The first download of an apply_update call is about to begin.
FirstDownloadBegins == pc = "dl_get" /\ idx = 1 /\ attempt = 0

\* C27: the staging tree is recreated empty at the start of every apply
\* attempt.  When the first download of an apply_update call begins, /next
\* exists and holds no file, whatever the boot found there; and the tree a
\* successful apply has made active holds the files of its manifest and no
\* other.
C27_StagingRecreatedEmpty ==
    /\ FirstDownloadBegins => fs["/next"] = EmptyTree
    /\ Applied =>
         {f[1] : f \in fs["/app"].files} =
             {manifest.files[i].path : i \in 1..Len(manifest.files)}

\* C27 witness: the first download begins on a device whose earlier apply
\* attempt was cut by a power loss and had left a file in the staging tree.
C27_Witness ==
    /\ FirstDownloadBegins
    /\ losses = 1
    /\ pre.fs["/next"].files # {}
    /\ fs["/next"] = EmptyTree

\* apply_update has raised on a manifest with no file entry (the list is
\* empty, or missing and defaulted to the empty list).
EmptyManifestRaised == ApplyRaised /\ manifest.files = <<>>

C28_NothingTouchedStates ==
    EmptyManifestRaised =>
        /\ fs = pre.fs
        /\ state_json = pre.state_json
        /\ idx = 0 /\ attempt = 0 /\ got = "" /\ fetched = {} /\ errs = <<>>

\* C28: a manifest whose files list is empty or missing is rejected before
\* anything is touched.  The step of apply_update on such a manifest raises
\* and changes neither a tree nor /state.json nor anything of a download;
\* and when main.py catches the exception the four trees and the persisted
\* state are what they were when apply_update was called, no download
\* having been made.
C28_EmptyManifestRejected ==
    /\ []C28_NothingTouchedStates
    /\ [][pc = "apply" /\ manifest.files = <<>> =>
            /\ pc' = "count_boot"
            /\ result' = Outcome("apply_update", "raised")
            /\ fs' = fs
            /\ state_json' = state_json
            /\ dl' = dl]_vars

\* C28 witness: a newer manifest with no file entry has been rejected on a
\* device whose staging tree still holds a file of an earlier failed
\* apply, and the staging tree is as it was.
C28_Witness ==
    /\ EmptyManifestRaised
    /\ pc = "count_boot"
    /\ manifest.version = V12
    /\ pre.fs["/next"].files # {}
    /\ fs["/next"] = pre.fs["/next"]

\* C29: a caller can register a progress callback with the updater, which
\* is then invoked from the polling loops and whose failures are
\* discarded.  The registration main.py makes, updater.set_status_led(led),
\* returns: it never ends the boot with an AttributeError.
C29_ProgressCallbackRegistered ==
    ~(pc = "halted" /\ e = "AttributeError")

\* Milliseconds since connect_wifi read t0.
Elapsed == ticks_diff(ticks_ms, t0)

\* The longest pass of the polling loop.
LongestSleepMs == CHOOSE ms \in SleepMs : \A other \in SleepMs : other <= ms

ConnectEnded == pc \in {"cw_returned", "cw_raised"}

C30_BoundedWait ==
    /\ pc = "cw_poll" =>
         Elapsed \in 0..(timeout_s * 1000 + LongestSleepMs)
    /\ pc = "cw_raised" =>
         /\ result = Outcome("connect_wifi", "raised")
         /\ e = "RuntimeError"
         /\ Elapsed > timeout_s * 1000
         /\ Elapsed <= timeout_s * 1000 + LongestSleepMs
    /\ pc = "cw_returned" =>
         /\ result = Outcome("connect_wifi", "returned")
         /\ e = NoError

\* C30: the network connect never blocks indefinitely.  connect_wifi ends
\* by returning the handle or by raising the timeout error; it returns at
\* once, without a sleep, when the link is already up; it raises only when
\* more than timeout_s seconds have passed since t0, and at the first pass
\* of the loop after that, so that the wait is never longer than the
\* timeout and one sleep; and under a fair clock every call ends.
C30_ConnectTerminates ==
    /\ []C30_BoundedWait
    /\ [][pc = "connect_wifi" /\ pc' = "cw_returned" =>
            ticks_ms' = ticks_ms /\ t0' = t0]_vars
    /\ (pc = "connect_wifi" ~> ConnectEnded)

\* C30 witness: a call with the default timeout of 20 s has raised the
\* timeout error, the clock having wrapped during the wait.
C30_Witness ==
    /\ pc = "cw_raised"
    /\ timeout_s = DefaultTimeoutS
    /\ ticks_ms < t0
    /\ Elapsed > 20000

\* C31: NgenicClient respects a 429 Retry-After.  After a poll that has
\* received HTTP 429 with Retry-After = N seconds (60 if absent or
\* unparsable), the last HTTP request the client has made is that poll's,
\* or one made at least N seconds after it: refresh_if_due issues no
\* request between the two, with force=True or without.
C31_RetryAfterRespected ==
    limited.on =>
        \/ requested.at = limited.at
        \/ ticks_diff(requested.at, limited.at) >= limited.wait_s * 1000

\* The application is running and has not acknowledged this boot.
Unacknowledged == pc = "app" /\ acks = 0

\* C32: on a boot with no rollback and no applied update the failure
\* counter is incremented by one and persisted before the application is
\* started: the step that starts the application is the import of
\* app_main, taken with the record on flash already holding the count of
\* the boot's beginning plus one; a crash or a hang of the application and
\* the restart that follows leave that record to the next boot; and once
\* the application runs, only mark_boot_success writes the record, and it
\* writes the counter 0.
C32_CountedBeforeAppStart ==
    [][/\ (pc # "app" /\ pc' = "app") =>
             /\ pc = "import_app"
             /\ state_json.kind = "record"
             /\ NewCount = OldCount + 1
             /\ state_json' = state_json
       /\ (Unacknowledged /\ pc' \in {"halted", "boot"}) =>
             /\ state_json'.kind = "record"
             /\ state_json'.boot_failures = OldCount + 1
       /\ (pc = "halted" /\ pc' = "boot") => state_json' = state_json
       /\ (pc \in {"app", "app_ok", "mbs_write"} /\ state_json' # state_json) =>
             \/ pc' = "mbs_write"
             \/ /\ pc = "mbs_write"
                /\ state_json'.kind = "record"
                /\ state_json'.boot_failures = 0]_vars

\* C32 witness: the application runs unacknowledged on a boot whose update
\* check found nothing newer, with the counter gone from 1 to 2 on flash.
C32_Witness ==
    /\ Unacknowledged
    /\ result = Outcome("check_and_update", "false")
    /\ OldCount = 1
    /\ state_json.kind = "record"
    /\ NewCount = 2

\* C33: recovery mode.  A boot that finds the BOOT button held has made the
\* rollback check, which returned False, and nothing since: the state file
\* and the three trees are as that check found and left them, no update
\* check has been made, the boot is not counted and the application is not
\* started; and the boot stays so until the device is restarted.
C33_RecoveryMode ==
    [][/\ pc' = "recovery" =>
             /\ pc \in {"secrets", "recovery"}
             /\ result' = Outcome("maybe_rollback", "false")
             /\ fs' = pre'.fs
             /\ state_json' = pre'.state_json
             /\ acks' = 0
       /\ pc = "recovery" =>
             /\ pc' \in {"recovery", "boot"}
             /\ fs' = fs
             /\ state_json' = state_json]_vars

\* C33 witness: a device that has counted two failed boots and keeps a
\* previous tree is held in recovery mode.
C33_Witness ==
    /\ pc = "recovery"
    /\ state_json.kind = "record"
    /\ state_json.boot_failures = 2
    /\ fs["/app_prev"].exists

\* The same device under fair boot progress: the device does not stop for
\* ever where a step of main.py, of the updater or of the application, or a
\* restart of the ended boot, is possible, and the BOOT button is not held
\* at every boot.
SpecFair ==
    /\ Spec
    /\ WF_vars(Next)
    /\ SF_vars(main_recovery_check /\ pc' # "recovery")

\* A boot begins on a record whose counter is 0, with a previous tree.
FreshWithPrevious ==
    /\ pc = "boot"
    /\ state_json.kind = "record"
    /\ state_json.boot_failures = 0
    /\ fs["/app_prev"].exists

\* The rollback check of a boot: its step, and its step with the rollback
\* begun.
RollbackCheck == pc = "boot" /\ pc' # "boot"
RollbackBegun == RollbackCheck /\ pc' = "mr_rmtree"

\* C34: the rollback bound.  While a previous tree exists, an application
\* that has not acknowledged its boot runs on a counter between 1 and
\* max_failures: counted from 0 it is started on max_failures boots and not
\* once more.  The rollback check of a boot begins the rollback when the
\* counter has reached max_failures with a previous tree, so on the boot
\* after the last of those, and on no earlier one.  From a boot on counter
\* 0 with a previous tree, under fair boot progress, the application
\* acknowledges a boot, or an update is applied, or the rollback occurs.
C34_RollbackBound ==
    /\ [](Unacknowledged /\ fs["/app_prev"].exists =>
            NewCount \in 1..max_failures)
    /\ [][/\ (RollbackCheck /\ state_json.kind = "record"
                 /\ state_json.boot_failures >= max_failures
                 /\ fs["/app_prev"].exists) => RollbackBegun
          /\ RollbackBegun =>
               /\ state_json.kind = "record"
               /\ state_json.boot_failures >= max_failures
               /\ fs["/app_prev"].exists]_vars
    /\ FreshWithPrevious ~> (RolledBack \/ Applied \/ pc = "app_ok")

\* C34 witness: the rollback has been made at the rollback check of a boot
\* that began on counter max_failures, the application having run last on
\* an update that nothing acknowledged.
C34_Witness ==
    /\ RolledBack
    /\ OldCount = max_failures
    /\ Loaded(pre.state_json).pending_version # Null
    /\ pre.fs["/app_prev"].exists
    /\ fs["/app"] = pre.fs["/app_prev"]

\* C35: every tree that a rollback makes active is known-good.  When
\* maybe_rollback has moved the previous tree to /app, that tree is one on
\* which the application has called mark_boot_success at least once while
\* it was the active tree.
C35_RollbackRestoresKnownGood == RolledBack => "/app" \in good.roots

\* check_and_update has found the manifest newer and apply_update has it:
\* at its test of the file list, downloading, swapping or done.
Applying == pc = "apply" \/ ApplyUnderWay

\* C36: a rollback leaves installed_version unchanged, so no
\* update/rollback loop arises.  The record a rollback has written holds
\* the installed_version of before the call; and once maybe_rollback has
\* reverted a version, no check_and_update finds a manifest that declares
\* that version newer: the version is not downloaded or activated again.
C36_NoUpdateRollbackLoop ==
    /\ RolledBack =>
         /\ state_json.kind = "record"
         /\ state_json.installed_version
              = Loaded(pre.state_json).installed_version
    /\ Applying => manifest.version \notin good.reverted

\* C36 witness: after the rollback of version 1.2 to the factory tree, an
\* update check has ended with False and the application runs the factory
\* tree under installed_version 1.2.
C36_Witness ==
    /\ V12 \in good.reverted
    /\ result = Outcome("check_and_update", "false")
    /\ pc = "app"
    /\ fs["/app"] = FactoryTree
    /\ state_json.kind = "record"
    /\ state_json.installed_version = V12

\* The pending version on flash now, and when the current updater call (or,
\* before the first one, the boot) began.
NewPending == state_json.pending_version
OldPending == Loaded(pre.state_json).pending_version

\* C37: in every record on flash pending_version is null or equal to
\* installed_version, and it is non-null exactly from a successful apply
\* to the first mark_boot_success or rollback after it: it becomes
\* non-null (or another version) only by the record a successful
\* apply_update writes, which holds it non-null; it becomes null only by
\* the record of mark_boot_success or of a rollback, which both hold null.
C37_PendingVersion ==
    state_json.kind = "record" =>
        /\ NewPending \in {Null, state_json.installed_version}
        /\ (NewPending # OldPending /\ NewPending # Null) => Applied
        /\ (NewPending # OldPending /\ NewPending = Null) =>
              \/ RolledBack
              \/ result = Outcome("mark_boot_success", "returned")
        /\ Applied => NewPending = manifest.version
        /\ RolledBack => NewPending = Null
        /\ pc = "app_ok" => NewPending = Null

\* C37 witness: the application runs on the second boot of an applied
\* update that nothing has acknowledged, the pending version still set.
C37_Witness ==
    /\ pc = "app"
    /\ state_json.kind = "record"
    /\ NewPending = V110
    /\ state_json.installed_version = V110
    /\ NewCount = 2

\* The versions whose files no other manifest serves, and a tree that holds
\* a file of such a version: it was built from a manifest of that version.
DistinctVersions == {V12, V110}
BuiltFrom(tree, v) ==
    /\ tree.exists
    /\ \E f \in tree.files : f[2] = ContentOf(v)

\* C38: crash consistency of the version bookkeeping.  At the start of a
\* boot with no rollback since the last swap (the previous tree that the
\* swap set aside is still there), the installed_version on flash is the
\* version of the manifest from which the active tree was built, wherever
\* inside apply_update the device was reset; and apply_update never swaps
\* in a tree of the version from which the tree it sets aside was built.
C38_InstalledVersionMatchesActive ==
    \A v \in DistinctVersions :
        /\ (pc = "boot" /\ fs["/app_prev"].exists /\ BuiltFrom(fs["/app"], v)) =>
              /\ state_json.kind = "record"
              /\ state_json.installed_version = v
        /\ (pc = "ap_rename_next" /\ manifest.version = v) =>
              ~BuiltFrom(fs["/app_prev"], v)

\* The root holds an application tree: a directory with at least a file.
HoldsTree(root) == fs[root].exists /\ fs[root].files # {}

\* C39: recovery from an interrupted swap.  After a reset between the two
\* activation renames of apply_update the flash never comes to hold no
\* application tree at all: at every state one of the active, previous and
\* staging locations holds a tree (a complete verified tree is at least a
\* directory with a file in it), so that a later update check or the
\* rollback of the crash-looping device can make a tree active again.
C39_SomeTreeKept == HoldsTree("/app") \/ HoldsTree("/app_prev") \/ HoldsTree("/next")

====
